---- MODULE Spec2Model ----
(***************************************************************************)
(* BackForCatalog: the authorization-code exchange (services/auth.ts), the *)
(* code reaper (storage/index.ts), the catalogue availability check and    *)
(* inventory update (services/catalog.ts) and the checkout transaction     *)
(* (services/checkout.ts, in both of the versions the repository holds).   *)
(*                                                                         *)
(* The three stores are JavaScript Maps: a Map is modelled as a function   *)
(* whose DOMAIN is the set of keys present.  Node runs one handler at a    *)
(* time and switches only at an await, so every synchronous stretch of a   *)
(* handler is one action.  Time is counted in units of ten minutes (the    *)
(* default lifetime of a code); the reaper's timer may fire at any time.   *)
(***************************************************************************)
EXTENDS Integers, Sequences, FiniteSets, TLC

\* ------------------------------------------------------------------ bounds
MaxCodes == 2
MaxTime == 2
MaxReqs == 2
MaxLines == 2
MaxQty == 1
MaxSeed == 2
MaxCheckouts == 2
MaxVerdicts == 2

\* ------------------------------------------------------- program constants
\* OAUTH_CODE_EXPIRATION defaults to "10m": one unit of time.
CodeTTL == 1

\* JWT_EXPIRATION defaults to "1h": six units of time.
TokenTTL == 6

\* JWT_SECRET, JWT_ISSUER and JWT_AUDIENCE as loadConfig defaults them.
jwtSecret == "dev-secret-change-in-production"
jwtIssuer == "backforcatalog"
jwtAudience == "backforcatalog-app"

Emails == {"a@b.com", "c@d.com"}
Codes == 1..MaxCodes

\* The messages of the Errors exchangeCodeForToken throws.
MsgInvalid == "Invalid authorization code"
MsgUsed == "Authorization code has already been used"
MsgExpired == "Authorization code has expired"
\* Not an Error: the call passed all three checks and marked the code used.
Marked == "marked"

VARIABLES
  now,              \* the clock read by new Date() / Date.now()
  usersStorage,     \* Map<email, User>
  authCodesStorage, \* Map<code, AuthorizationCode>
  inflight,         \* per code, the exchangeCodeForToken calls suspended at their await
  issued,           \* history: every code handleLogin has returned, with its binding
  passed,           \* history: per code, the calls that passed the checks and marked it used
  redeemed,         \* history: per code, the calls that returned an access token
  lastRedeem,       \* history: the most recent exchangeCodeForToken call, how it ended, and
                    \*   what held when it was made (prior...: the code had been issued, its
                    \*   entry was stored, its expiry had passed, a call had marked it, a
                    \*   call had returned its token)
  minting,          \* per code, the tokens the suspended calls are waiting for
  tokens,           \* history: the access tokens returned, each with the code redeemed
  unswept,          \* history: the code Map as the same calls leave it when no sweep runs
  productsStorage,  \* Map<productId, Product>
  checkoutImpl,     \* which of the repository's two services/checkout.ts is built
  seeded,           \* history: the inventory loadInitialProducts stored
  sold,             \* history: per product, the quantities of the checkouts that returned success
  checkouts,        \* history: the number of processCheckout calls so far
  lastCheckout,     \* history: the most recent processCheckout call and how it ended
  lastRequest,      \* history: the Authorization header and the body of the most recent
                    \*   POST /checkout that came through the preHandler hook, and whether
                    \*   its handler ran
  lastReply,        \* history: the reply of the most recent POST /checkout
  verdicts,         \* history: the verifyAccessToken calls made, with their results
  arrivals,         \* the requests on their way to the server (the bodies of POST
                    \*   /auth/login, the Authorization headers), and the position of the
                    \*   next one it handles
  lastQuery         \* history: the most recent call of a function that only reads (of the
                    \*   catalogue service, of the token and validation utilities), with
                    \*   its arguments and what it returned; of a processCheckout call
                    \*   that is traced, its lines, the store it found and its debit loop

authVars == <<now, usersStorage, authCodesStorage, inflight, issued, passed, redeemed, lastRedeem,
              minting, tokens, unswept>>
checkoutVars == <<productsStorage, checkoutImpl, seeded, sold, checkouts, lastCheckout>>
httpVars == <<lastRequest, lastReply, verdicts, arrivals, lastQuery>>
vars == <<now, usersStorage, authCodesStorage, inflight, issued, passed, redeemed, lastRedeem,
          minting, tokens, unswept,
          productsStorage, checkoutImpl, seeded, sold, checkouts, lastCheckout,
          lastRequest, lastReply, verdicts, arrivals, lastQuery>>

\* ------------------------------------------------------------ Map helpers
MapSet(m, k, v) == [x \in DOMAIN m \cup {k} |-> IF x = k THEN v ELSE m[x]]
MapDelete(m, k) == [x \in DOMAIN m \ {k} |-> m[x]]
EmptyMap == [x \in {} |-> 0]

\* The number of exchangeCodeForToken calls suspended at their await.
RECURSIVE Suspended(_, _)
Suspended(calls, n) == IF n = 0 THEN 0 ELSE calls[n] + Suspended(calls, n - 1)

NoRedeem == [code |-> 0, outcome |-> "none", priorExpired |-> FALSE,
             priorIssued |-> FALSE, priorPresent |-> FALSE,
             priorPassed |-> FALSE, priorRedeemed |-> FALSE, unswept |-> "none"]

\* ------------------------------------------------------------- auth flow
\* Mutant of generateAuthorizationCode: every login returns the same code.
generateAuthorizationCodeFixed == CHOOSE c \in Codes : \A d \in Codes : c <= d

\* generateAuthorizationCode: 32 random bytes.  A value never returned
\* before is modelled as the next unissued code.
generateAuthorizationCode == Cardinality(DOMAIN issued) + 1

\* Mutant of calculateExpirationDate: the lifetime is not added.
calculateExpirationDateNow(t) == t

\* calculateExpirationDate(config.oauthCodeExpiration), called at time t
calculateExpirationDate(t) == t + CodeTTL

\* Mutant of getOrCreateUser: the User is written on every login.
getOrCreateUserOverwrite(store, email, t) ==
  MapSet(store, email, [email |-> email, createdAt |-> t])

\* The user lookup of handleLogin: the stored User is kept, a missing one is
\* created with the current time.
getOrCreateUser(store, email, t) ==
  IF email \in DOMAIN store THEN store
  ELSE MapSet(store, email, [email |-> email, createdAt |-> t])

\* What handleLogin(email) writes: the whole function is synchronous.
LoginWrites(email) ==
  LET authCode == generateAuthorizationCode
      authorizationCode == [code |-> authCode, email |-> email,
                            expiresAt |-> calculateExpirationDate(now), used |-> FALSE]
  IN /\ authCode \in Codes
     /\ usersStorage' = getOrCreateUser(usersStorage, email, now)
     /\ authCodesStorage' = MapSet(authCodesStorage, authCode, authorizationCode)
     /\ issued' = MapSet(issued, authCode, [email |-> email, expiresAt |-> authorizationCode.expiresAt])
     /\ unswept' = MapSet(unswept, authCode, authorizationCode)
     /\ UNCHANGED <<now, inflight, passed, redeemed, lastRedeem, minting, tokens>>
     /\ UNCHANGED checkoutVars

\* The seconds of one unit of the clock: ten minutes.
SecondsPerUnit == 600

\* The LoginResponse handleLogin returns.
LoginResponse ==
  [authorizationCode |-> generateAuthorizationCode, expiresIn |-> CodeTTL * SecondsPerUnit]

\* handleLogin(email), called with an address that passed validation.
handleLogin(email) ==
  /\ LoginWrites(email)
  /\ UNCHANGED httpVars

\* Mutant of ExchangeOutcome: the used flag is not looked at.
ExchangeOutcomeNoUsedCheck(store, code, t) ==
  IF code \notin DOMAIN store THEN MsgInvalid
  ELSE IF store[code].expiresAt < t THEN MsgExpired
  ELSE Marked

\* Mutant of ExchangeOutcome: the expiry is checked before the used flag.
ExchangeOutcomeExpiryFirst(store, code, t) ==
  IF code \notin DOMAIN store THEN MsgInvalid
  ELSE IF store[code].expiresAt < t THEN MsgExpired
  ELSE IF store[code].used THEN MsgUsed
  ELSE Marked

\* Mutant of ExchangeOutcome: the expiry is not checked.
ExchangeOutcomeNoExpiry(store, code, t) ==
  IF code \notin DOMAIN store THEN MsgInvalid
  ELSE IF store[code].used THEN MsgUsed
  ELSE Marked

\* Mutant of ExchangeOutcome: a code is taken for expired at the very instant
\* of its expiry.
ExchangeOutcomeExpiredAtInstant(store, code, t) ==
  IF code \notin DOMAIN store THEN MsgInvalid
  ELSE IF store[code].used THEN MsgUsed
  ELSE IF store[code].expiresAt <= t THEN MsgExpired
  ELSE Marked

\* The three checks of exchangeCodeForToken, in the order of the code: the
\* message of the Error thrown, or Marked when none is.
ExchangeOutcome(store, code, t) ==
  IF code \notin DOMAIN store THEN MsgInvalid
  ELSE IF store[code].used THEN MsgUsed
  ELSE IF store[code].expiresAt < t THEN MsgExpired
  ELSE Marked

\* Mutant of ExchangeStore: used = true is written after the await, so the
\* synchronous part leaves the flag as it found it.
ExchangeStoreMarkAfterAwait(store, code, t) ==
  IF ExchangeOutcome(store, code, t) = MsgExpired THEN MapDelete(store, code) ELSE store

\* Mutant of ExchangeStore: an expired entry is left in the Map.
ExchangeStoreKeepsExpired(store, code, t) ==
  IF ExchangeOutcome(store, code, t) = Marked
    THEN MapSet(store, code, [store[code] EXCEPT !.used = TRUE])
    ELSE store

\* The store after the synchronous part of exchangeCodeForToken.
ExchangeStore(store, code, t) ==
  LET outcome == ExchangeOutcome(store, code, t)
  IN IF outcome = MsgExpired THEN MapDelete(store, code)
     ELSE IF outcome = Marked THEN MapSet(store, code, [store[code] EXCEPT !.used = TRUE])
     ELSE store

\* generateAccessToken(email), called at time t: the claims of the JWT and the
\* key that signs it.  iat and exp are set before the await of sign().
generateAccessToken(email, t) ==
  [sub |-> email, iss |-> jwtIssuer, aud |-> jwtAudience, iat |-> t, exp |-> t + TokenTTL,
   key |-> jwtSecret]

\* exchangeCodeForToken(code) up to its only await: lookup, the three
\* checks, used = true, and the call of generateAccessToken with the email of
\* the entry.
ExchangeStart(code) ==
  LET outcome == ExchangeOutcome(authCodesStorage, code, now)
  IN /\ Suspended(inflight, MaxCodes) < MaxReqs
     /\ authCodesStorage' = ExchangeStore(authCodesStorage, code, now)
     /\ inflight' = IF outcome = Marked THEN [inflight EXCEPT ![code] = @ + 1] ELSE inflight
     /\ minting' = IF outcome = Marked
                     THEN [minting EXCEPT
                             ![code] = Append(@, generateAccessToken(authCodesStorage[code].email, now))]
                     ELSE minting
     /\ unswept' = ExchangeStore(unswept, code, now)
     /\ passed' = IF outcome = Marked THEN [passed EXCEPT ![code] = @ + 1] ELSE passed
     /\ lastRedeem' = [code |-> code, outcome |-> outcome,
                       priorExpired |-> code \in DOMAIN issued /\ now > issued[code].expiresAt,
                       priorIssued |-> code \in DOMAIN issued,
                       priorPresent |-> code \in DOMAIN authCodesStorage,
                       priorPassed |-> passed[code] > 0,
                       priorRedeemed |-> redeemed[code] > 0,
                       unswept |-> ExchangeOutcome(unswept, code, now)]
     /\ UNCHANGED <<now, usersStorage, issued, redeemed, tokens>>
     /\ UNCHANGED checkoutVars
     /\ UNCHANGED httpVars

\* Mutant of ExchangeReturn: after the await the call looks its code up again
\* and returns the token only if the entry is still stored.
ExchangeReturnLooksUpAgain(code) ==
  /\ inflight[code] > 0
  /\ code \in DOMAIN authCodesStorage
  /\ redeemed' = [redeemed EXCEPT ![code] = @ + 1]
  /\ inflight' = [inflight EXCEPT ![code] = @ - 1]
  /\ tokens' = tokens \cup {[code |-> code, accessToken |-> Head(minting[code])]}
  /\ minting' = [minting EXCEPT ![code] = Tail(@)]
  /\ UNCHANGED <<now, usersStorage, authCodesStorage, issued, passed, lastRedeem, unswept>>
  /\ UNCHANGED checkoutVars
  /\ UNCHANGED httpVars

\* A sequence without its i-th element.
Without(seq, i) == SubSeq(seq, 1, i - 1) \o SubSeq(seq, i + 1, Len(seq))

\* The await of one suspended call resolves: the token is returned to the
\* caller.  Nothing is read from or written to the stores after the await.
ExchangeReturn(code) ==
  /\ inflight[code] > 0
  /\ redeemed' = [redeemed EXCEPT ![code] = @ + 1]
  /\ inflight' = [inflight EXCEPT ![code] = @ - 1]
  /\ \E i \in 1..Len(minting[code]) :
       /\ tokens' = tokens \cup {[code |-> code, accessToken |-> minting[code][i]]}
       /\ minting' = [minting EXCEPT ![code] = Without(@, i)]
  /\ UNCHANGED <<now, usersStorage, authCodesStorage, issued, passed, lastRedeem, unswept>>
  /\ UNCHANGED checkoutVars
  /\ UNCHANGED httpVars

\* Mutant of ExchangeMintFail: the call that fails to mint clears the used
\* flag it had set.
ExchangeMintFailUnmarks(code) ==
  /\ inflight[code] > 0
  /\ inflight' = [inflight EXCEPT ![code] = @ - 1]
  /\ \E i \in 1..Len(minting[code]) : minting' = [minting EXCEPT ![code] = Without(@, i)]
  /\ authCodesStorage' = IF code \in DOMAIN authCodesStorage
                           THEN [authCodesStorage EXCEPT ![code].used = FALSE]
                           ELSE authCodesStorage
  /\ UNCHANGED <<now, usersStorage, issued, passed, redeemed, lastRedeem, tokens, unswept>>
  /\ UNCHANGED checkoutVars
  /\ UNCHANGED httpVars

\* The await rejects (parseDuration throws on a malformed JWT_EXPIRATION, or
\* the signing fails): the call throws, and nothing is written back.
ExchangeMintFail(code) ==
  /\ inflight[code] > 0
  /\ inflight' = [inflight EXCEPT ![code] = @ - 1]
  /\ \E i \in 1..Len(minting[code]) : minting' = [minting EXCEPT ![code] = Without(@, i)]
  /\ UNCHANGED <<now, usersStorage, authCodesStorage, issued, passed, redeemed, lastRedeem,
                 tokens, unswept>>
  /\ UNCHANGED checkoutVars
  /\ UNCHANGED httpVars

\* ----------------------------------------------------------------- reaper
\* Mutant of ReapedCodes: every entry is deleted.
ReapedCodesAll(store, t) == DOMAIN store

\* Mutant of ReapedCodes: an entry that expires at this very instant is deleted too.
ReapedCodesInclusive(store, t) == {c \in DOMAIN store : store[c].expiresAt <= t \/ store[c].used}

\* Mutant of ReapedCodes: the test of the used flag is negated.
ReapedCodesUnused(store, t) == {c \in DOMAIN store : store[c].expiresAt < t \/ ~store[c].used}

\* Mutant of ReapedCodes: the used flag is not looked at.
ReapedCodesExpiredOnly(store, t) == {c \in DOMAIN store : store[c].expiresAt < t}

\* cleanupExpiredAuthCodes: one sweep over the code Map.
ReapedCodes(store, t) == {c \in DOMAIN store : store[c].expiresAt < t \/ store[c].used}

\* removedCount, the number cleanupExpiredAuthCodes returns: one for every
\* entry the loop deletes.
removedCount(store, t) == Cardinality(ReapedCodes(store, t))

cleanupExpiredAuthCodes ==
  /\ authCodesStorage' = [c \in DOMAIN authCodesStorage \ ReapedCodes(authCodesStorage, now)
                            |-> authCodesStorage[c]]
  /\ UNCHANGED <<now, usersStorage, inflight, issued, passed, redeemed, lastRedeem,
                 minting, tokens, unswept>>
  /\ UNCHANGED checkoutVars
  /\ UNCHANGED httpVars

\* The clock advances.
Tick ==
  /\ now < MaxTime
  /\ now' = now + 1
  /\ UNCHANGED <<usersStorage, authCodesStorage, inflight, issued, passed, redeemed, lastRedeem,
                 minting, tokens, unswept>>
  /\ UNCHANGED checkoutVars
  /\ UNCHANGED httpVars

\* -------------------------------------------------------------- catalogue
\* data/products.json as loadInitialProducts stores it: two active products
\* and a draft one.  prod_0 is an id no product has.  Prices are in pence.
ProductIds == {"prod_0", "prod_1", "prod_2", "prod_3"}
Seeded == {"prod_1", "prod_2", "prod_3"}
SeedStatus(p) == IF p = "prod_3" THEN "draft" ELSE "active"
SeedPrice(p) == CASE p = "prod_1" -> 1999 [] p = "prod_2" -> 500 [] OTHER -> 250
SeedTitle(p) == CASE p = "prod_1" -> "Product 1" [] p = "prod_2" -> "Product 2" [] OTHER -> "Product 3"
SeedVariants(p) == IF p = "prod_2" THEN <<>> ELSE <<[id |-> "var_1", title |-> "Default"]>>

CheckoutItems == [productId : ProductIds, quantity : 1..MaxQty]

\* Mutant of getProductById: the status is not looked at.
getProductByIdAnyStatus(store, productId) ==
  IF DOMAIN store = {} THEN <<>>
  ELSE IF productId \notin DOMAIN store THEN <<>>
  ELSE store[productId]

\* getProductById(productId): the product, or null (modelled as <<>>).
getProductById(store, productId) ==
  IF DOMAIN store = {} THEN <<>>
  ELSE IF productId \notin DOMAIN store THEN <<>>
  ELSE IF store[productId].status # "active" THEN <<>>
  ELSE store[productId]

\* The order of the products in data/products.json, which is the order
\* productsStorage.values() yields them in: a Map iterates in insertion
\* order and set() on a stored id keeps its place.
ProductOrder == <<"prod_1", "prod_2", "prod_3">>

RECURSIVE ValuesFrom(_, _)
ValuesFrom(store, i) ==
  IF i > Len(ProductOrder) THEN <<>>
  ELSE (IF ProductOrder[i] \in DOMAIN store THEN <<store[ProductOrder[i]]>> ELSE <<>>)
         \o ValuesFrom(store, i + 1)

\* productsStorage.values()
values(store) == ValuesFrom(store, 1)

\* Mutant of ActiveOf: every product is pushed.
ActiveOfEvery(products) == products

\* The loop of getCatalogue that pushes the active products.
RECURSIVE ActiveOf(_)
ActiveOf(products) ==
  IF products = <<>> THEN <<>>
  ELSE (IF Head(products).status = "active" THEN <<Head(products)>> ELSE <<>>)
         \o ActiveOf(Tail(products))

\* Mutant of Ceil: one more than the truncated quotient.
CeilOneMore(a, b) == a \div b + 1

\* Mutant of Ceil: the quotient is truncated.
CeilTruncates(a, b) == a \div b

\* Math.ceil(a / b) for a >= 0 and b >= 1.
Ceil(a, b) == (a + b - 1) \div b

Min(a, b) == IF a <= b THEN a ELSE b

\* Array.prototype.slice(start, end) for 0 <= start <= end: the elements at
\* the 0-based positions start .. end - 1 that exist.
slice(array, start, end) ==
  LET from == Min(start, Len(array))
      to == Min(end, Len(array))
  IN [i \in 1..(to - from) |-> array[from + i]]

\* getCatalogue({page, limit})
getCatalogue(store, page, limit) ==
  IF DOMAIN store = {}
    THEN [products |-> <<>>,
          pagination |-> [currentPage |-> page, totalPages |-> 0, totalItems |-> 0,
                          itemsPerPage |-> limit]]
  ELSE LET activeProducts == ActiveOf(values(store))
           totalItems == Len(activeProducts)
           totalPages == Ceil(totalItems, limit)
           startIdx == (page - 1) * limit
           endIdx == startIdx + limit
       IN [products |-> slice(activeProducts, startIdx, endIdx),
           pagination |-> [currentPage |-> page, totalPages |-> totalPages,
                           totalItems |-> totalItems, itemsPerPage |-> limit]]

\* Mutant of checkProductAvailability: the stock is compared before the
\* status.
checkProductAvailabilityStockFirst(store, productId, requestedQuantity) ==
  IF DOMAIN store = {}
    THEN [available |-> FALSE,
          error |-> "Product catalogue is currently unavailable. Please try again later."]
  ELSE IF productId \notin DOMAIN store
    THEN [available |-> FALSE, error |-> "Product not found"]
  ELSE IF store[productId].inventory < requestedQuantity
    THEN [available |-> FALSE, error |-> "Insufficient inventory"]
  ELSE IF store[productId].status # "active"
    THEN [available |-> FALSE, error |-> "Product is not available for purchase"]
  ELSE [available |-> TRUE, error |-> ""]

\* Mutant of checkProductAvailability: no check of an empty store.
checkProductAvailabilityNoEmptyCheck(store, productId, requestedQuantity) ==
  IF productId \notin DOMAIN store
    THEN [available |-> FALSE, error |-> "Product not found"]
  ELSE IF store[productId].status # "active"
    THEN [available |-> FALSE, error |-> "Product is not available for purchase"]
  ELSE IF store[productId].inventory < requestedQuantity
    THEN [available |-> FALSE, error |-> "Insufficient inventory"]
  ELSE [available |-> TRUE, error |-> ""]

\* Mutant of checkProductAvailability: the status is not looked at.
checkProductAvailabilityAnyStatus(store, productId, requestedQuantity) ==
  IF DOMAIN store = {}
    THEN [available |-> FALSE,
          error |-> "Product catalogue is currently unavailable. Please try again later."]
  ELSE IF productId \notin DOMAIN store
    THEN [available |-> FALSE, error |-> "Product not found"]
  ELSE IF store[productId].inventory < requestedQuantity
    THEN [available |-> FALSE, error |-> "Insufficient inventory"]
  ELSE [available |-> TRUE, error |-> ""]

\* checkProductAvailability(productId, requestedQuantity)
checkProductAvailability(store, productId, requestedQuantity) ==
  IF DOMAIN store = {}
    THEN [available |-> FALSE,
          error |-> "Product catalogue is currently unavailable. Please try again later."]
  ELSE IF productId \notin DOMAIN store
    THEN [available |-> FALSE, error |-> "Product not found"]
  ELSE IF store[productId].status # "active"
    THEN [available |-> FALSE, error |-> "Product is not available for purchase"]
  ELSE IF store[productId].inventory < requestedQuantity
    THEN [available |-> FALSE, error |-> "Insufficient inventory"]
  ELSE [available |-> TRUE, error |-> ""]

\* Mutant of updateProductInventory: a quantity above the stock takes what is left.
updateProductInventoryTakesTheRest(store, productId, quantity) ==
  IF DOMAIN store = {} THEN [ok |-> FALSE, store |-> store]
  ELSE IF productId \notin DOMAIN store THEN [ok |-> FALSE, store |-> store]
  ELSE IF store[productId].inventory < quantity
    THEN [ok |-> TRUE, store |-> [store EXCEPT ![productId].inventory = 0]]
  ELSE [ok |-> TRUE,
        store |-> [store EXCEPT ![productId].inventory = @ - quantity]]

\* Mutant of updateProductInventory: a product that sells out is archived.
updateProductInventoryArchivesSoldOut(store, productId, quantity) ==
  IF DOMAIN store = {} THEN [ok |-> FALSE, store |-> store]
  ELSE IF productId \notin DOMAIN store THEN [ok |-> FALSE, store |-> store]
  ELSE IF store[productId].inventory < quantity THEN [ok |-> FALSE, store |-> store]
  ELSE [ok |-> TRUE,
        store |-> [store EXCEPT ![productId].inventory = @ - quantity,
                                ![productId].status =
                                  IF store[productId].inventory = quantity
                                    THEN "archived" ELSE @]]

\* Mutant of updateProductInventory: the stock is not compared with the quantity.
updateProductInventoryUnchecked(store, productId, quantity) ==
  IF DOMAIN store = {} THEN [ok |-> FALSE, store |-> store]
  ELSE IF productId \notin DOMAIN store THEN [ok |-> FALSE, store |-> store]
  ELSE [ok |-> TRUE,
        store |-> [store EXCEPT ![productId].inventory = @ - quantity]]

\* Mutant of updateProductInventory: the stock is decremented, not reduced by
\* the quantity.
updateProductInventoryByOne(store, productId, quantity) ==
  IF DOMAIN store = {} THEN [ok |-> FALSE, store |-> store]
  ELSE IF productId \notin DOMAIN store THEN [ok |-> FALSE, store |-> store]
  ELSE IF store[productId].inventory < quantity THEN [ok |-> FALSE, store |-> store]
  ELSE [ok |-> TRUE,
        store |-> [store EXCEPT ![productId].inventory = @ - 1]]

\* updateProductInventory(productId, quantity): the value returned and the
\* store it leaves.
updateProductInventory(store, productId, quantity) ==
  IF DOMAIN store = {} THEN [ok |-> FALSE, store |-> store]
  ELSE IF productId \notin DOMAIN store THEN [ok |-> FALSE, store |-> store]
  ELSE IF store[productId].inventory < quantity THEN [ok |-> FALSE, store |-> store]
  ELSE [ok |-> TRUE,
        store |-> [store EXCEPT ![productId].inventory = @ - quantity]]

\* --------------------------------------------------------------- checkout
\* The validation loop: the index of the first line whose availability check
\* fails, 0 when every line passes.
RECURSIVE PreFlightFrom(_, _, _)
PreFlightFrom(store, items, i) ==
  IF i > Len(items) THEN 0
  ELSE IF ~checkProductAvailability(store, items[i].productId, items[i].quantity).available
    THEN i
  ELSE PreFlightFrom(store, items, i + 1)

\* Mutant of PreFlight: only the first line is validated.
PreFlightFirstLineOnly(store, items) ==
  IF ~checkProductAvailability(store, items[1].productId, items[1].quantity).available
    THEN 1 ELSE 0

PreFlight(store, items) == PreFlightFrom(store, items, 1)

\* Mutant of PricingFrom: totalAmount = subtotal instead of totalAmount += subtotal.
RECURSIVE PricingFromOverwritesTotal(_, _, _, _, _)
PricingFromOverwritesTotal(store, items, i, responseItems, totalAmount) ==
  IF i > Len(items)
    THEN [missing |-> 0, items |-> responseItems, totalAmount |-> totalAmount]
  ELSE LET product == getProductById(store, items[i].productId)
       IN IF product = <<>>
            THEN [missing |-> i, items |-> responseItems, totalAmount |-> totalAmount]
          ELSE LET subtotal == product.price * items[i].quantity
               IN PricingFromOverwritesTotal(store, items, i + 1,
                              Append(responseItems,
                                     [productId |-> items[i].productId,
                                      quantity |-> items[i].quantity,
                                      unitPrice |-> product.price,
                                      subtotal |-> subtotal]),
                              subtotal)

\* The pricing loop: the index of the first line getProductById returns null
\* for (0 when none), the priced lines and the total.
RECURSIVE PricingFrom(_, _, _, _, _)
PricingFrom(store, items, i, responseItems, totalAmount) ==
  IF i > Len(items)
    THEN [missing |-> 0, items |-> responseItems, totalAmount |-> totalAmount]
  ELSE LET product == getProductById(store, items[i].productId)
       IN IF product = <<>>
            THEN [missing |-> i, items |-> responseItems, totalAmount |-> totalAmount]
          ELSE LET subtotal == product.price * items[i].quantity
               IN PricingFrom(store, items, i + 1,
                              Append(responseItems,
                                     [productId |-> items[i].productId,
                                      quantity |-> items[i].quantity,
                                      unitPrice |-> product.price,
                                      subtotal |-> subtotal]),
                              totalAmount + subtotal)

Pricing(store, items) == PricingFrom(store, items, 1, <<>>, 0)

\* Mutant of DebitFrom: the loop goes on to the next line after an update
\* that returned false.
RECURSIVE DebitFromContinues(_, _, _, _)
DebitFromContinues(store, items, i, updates) ==
  IF i > Len(items)
    THEN [failedAt |-> 0, store |-> store, updates |-> updates]
  ELSE LET u == updateProductInventory(store, items[i].productId, items[i].quantity)
       IN IF ~u.ok
            THEN [DebitFromContinues(store, items, i + 1, updates) EXCEPT !.failedAt = i]
          ELSE DebitFromContinues(u.store, items, i + 1, Append(updates, items[i]))

\* The debit loop: one updateProductInventory per line, in order, stopping at
\* the first that returns false.  updates is inventoryUpdates at that point.
RECURSIVE DebitFrom(_, _, _, _)
DebitFrom(store, items, i, updates) ==
  IF i > Len(items)
    THEN [failedAt |-> 0, store |-> store, updates |-> updates]
  ELSE LET u == updateProductInventory(store, items[i].productId, items[i].quantity)
       IN IF ~u.ok
            THEN [failedAt |-> i, store |-> store, updates |-> updates]
          ELSE DebitFrom(u.store, items, i + 1, Append(updates, items[i]))

DebitPass(store, items) == DebitFrom(store, items, 1, <<>>)

\* The debit loop as a traced processCheckout call ran it: not entered when
\* the call threw before it.
DebitTrace(store, items, result) ==
  IF result.outcome \in {"success", "InventoryUpdateFailed"} THEN DebitPass(store, items)
  ELSE [failedAt |-> 0, store |-> store, updates |-> <<>>]

\* rollbackInventoryUpdates(updates)
RECURSIVE rollbackInventoryUpdates(_, _)
rollbackInventoryUpdates(store, updates) ==
  IF updates = <<>> THEN store
  ELSE LET update == Head(updates)
           next == IF update.productId \in DOMAIN store
                     THEN [store EXCEPT ![update.productId].inventory = @ + update.quantity]
                     ELSE store
       IN rollbackInventoryUpdates(next, Tail(updates))

NoResponse == [success |-> FALSE]
Response(priced) ==
  [success |-> TRUE, totalAmount |-> priced.totalAmount, currency |-> "GBP",
   paymentIntent |-> [status |-> "pending", amount |-> priced.totalAmount],
   items |-> priced.items]

Thrown(kind, line, store) ==
  [outcome |-> kind, failedAt |-> line, store |-> store, response |-> NoResponse]

\* What the failing branch of the debit loop leaves: rollbackInventoryUpdates
\* is called before the throw, and the catch block the throw lands in calls it
\* again with the same inventoryUpdates.
DebitFailure(debit) ==
  rollbackInventoryUpdates(rollbackInventoryUpdates(debit.store, debit.updates), debit.updates)

\* processCheckout(items) of the services/checkout.ts that checks for an
\* empty store and rolls back: the outcome, the store it leaves and the
\* response it returns.
processCheckout(store, items) ==
  IF DOMAIN store = {} THEN Thrown("EmptyCatalogue", 0, store)
  ELSE IF PreFlight(store, items) # 0
    THEN Thrown("ItemUnavailable", PreFlight(store, items), store)
  ELSE LET priced == Pricing(store, items)
       IN IF priced.missing # 0 THEN Thrown("ProductNotFound", priced.missing, store)
          ELSE LET debit == DebitPass(store, items)
               IN IF debit.failedAt # 0
                    THEN Thrown("InventoryUpdateFailed", debit.failedAt, DebitFailure(debit))
                  ELSE [outcome |-> "success", failedAt |-> 0, store |-> debit.store,
                        response |-> Response(priced)]

\* processCheckout(items) of src/services/checkout.ts: no empty-store check,
\* and a failed update throws with the earlier debits left in place.
processCheckoutPlain(store, items) ==
  IF PreFlight(store, items) # 0
    THEN Thrown("ItemUnavailable", PreFlight(store, items), store)
  ELSE LET priced == Pricing(store, items)
       IN IF priced.missing # 0 THEN Thrown("ProductNotFound", priced.missing, store)
          ELSE LET debit == DebitPass(store, items)
               IN IF debit.failedAt # 0
                    THEN Thrown("InventoryUpdateFailed", debit.failedAt, debit.store)
                  ELSE [outcome |-> "success", failedAt |-> 0, store |-> debit.store,
                        response |-> Response(priced)]

\* The sum of the quantities of the lines of items that name product p.
RECURSIVE Requested(_, _)
Requested(items, p) ==
  IF items = <<>> THEN 0
  ELSE (IF Head(items).productId = p THEN Head(items).quantity ELSE 0) + Requested(Tail(items), p)

\* The indices of the lines that fail the availability check against store.
UnavailableLines(store, items) ==
  {i \in 1..Len(items) :
     ~checkProductAvailability(store, items[i].productId, items[i].quantity).available}

\* The message of the Error processCheckout throws ("" when it returns),
\* without the product id the code puts into it.
ErrorMessage(store, items, result) ==
  CASE result.outcome = "EmptyCatalogue" ->
         "Product catalogue is currently unavailable. Unable to process checkout. Please try again later."
    [] result.outcome = "ItemUnavailable" ->
         checkProductAvailability(store, items[result.failedAt].productId,
                                  items[result.failedAt].quantity).error
    [] result.outcome = "ProductNotFound" -> "Product not found"
    [] result.outcome = "InventoryUpdateFailed" -> "Failed to update inventory"
    [] OTHER -> ""

\* The messages the handler of POST /checkout takes for the client's fault:
\* those that include "not found", "not available" or "Insufficient inventory".
ClientErrors ==
  {"Product not found", "Product is not available for purchase", "Insufficient inventory"}

\* Mutant of StatusCode: every Error is taken for the client's fault.
StatusCodeClientAlways(message) ==
  IF message = "" THEN 200 ELSE 400

\* The status code the handler of POST /checkout replies with.
StatusCode(message) ==
  IF message = "" THEN 200 ELSE IF message \in ClientErrors THEN 400 ELSE 500

\* What the history keeps of a response: everything but the priced lines.
Summary(response) ==
  IF response.success
    THEN [success |-> TRUE, totalAmount |-> response.totalAmount,
          currency |-> response.currency, paymentIntent |-> response.paymentIntent]
    ELSE response

NoCheckout == [outcome |-> "none", failedAt |-> 0, lines |-> 0, unavailable |-> {},
               response |-> NoResponse]

\* The processCheckout of the build, applied to the store as it is.
CheckoutResult(items) ==
  IF checkoutImpl = "rollback" THEN processCheckout(productsStorage, items)
  ELSE processCheckoutPlain(productsStorage, items)

\* One POST /checkout whose token and body passed: the handler calls
\* processCheckout, which has no await.
Checkout(items) ==
  LET result == CheckoutResult(items)
  IN /\ checkouts < MaxCheckouts
     /\ checkouts' = checkouts + 1
     /\ productsStorage' = result.store
     /\ sold' = IF result.outcome = "success"
                  THEN [p \in DOMAIN sold |-> sold[p] + Requested(items, p)]
                  ELSE sold
     /\ lastCheckout' = [outcome |-> result.outcome, failedAt |-> result.failedAt,
                         lines |-> Len(items),
                         unavailable |-> UnavailableLines(productsStorage, items),
                         response |-> Summary(result.response)]
     /\ UNCHANGED <<checkoutImpl, seeded>>
     /\ UNCHANGED authVars

NoReply == [status |-> 0, error |-> "", body |-> NoResponse]

\* The same handler with the reply it sends: 200 and the CheckoutResponse, or
\* the status the message of the Error selects.
HandleCheckout(items) ==
  LET result == CheckoutResult(items)
      message == ErrorMessage(productsStorage, items, result)
  IN /\ Checkout(items)
     /\ lastReply' = [status |-> StatusCode(message), error |-> message,
                      body |-> result.response]

\* ------------------------------------------------------ input validation
\* The values JSON.parse gives for a request body.  A number is kept as its
\* double (halves / 2), so that 1.5 is a number and not an integer; a field an
\* object does not have reads as undefined.
Undefined == [type |-> "undefined"]
JsonNull == [type |-> "null"]
JsonString(text) == [type |-> "string", value |-> text]
JsonNumber(halves) == [type |-> "number", halves |-> halves]
JsonArray(elems) == [type |-> "array", elems |-> elems]
JsonItem(productId, quantity) ==
  [type |-> "object", productId |-> productId, quantity |-> quantity]
JsonBody(items) == [type |-> "object", items |-> items]

\* typeof value === "object" && value !== null
IsObject(value) == value.type \in {"object", "array"}

\* value[name] of an object, undefined where the field is missing
Field(value, name) ==
  IF value.type = "object" /\ name \in DOMAIN value THEN value[name] ELSE Undefined

MaxQuantity == 1000
MaxItems == 50

Invalid(error) == [success |-> FALSE, error |-> error, data |-> <<>>]
Valid(data) == [success |-> TRUE, error |-> "", data |-> data]

\* Mutant of validateCheckoutItem: no upper limit on the quantity.
validateCheckoutItemNoMaximum(item) ==
  LET productId == Field(item, "productId")
      quantity == Field(item, "quantity")
  IN IF ~IsObject(item) THEN Invalid("Item must be an object")
     ELSE IF productId.type # "string" \/ productId.value = ""
       THEN Invalid("Product ID must be a non-empty string")
     ELSE IF quantity.type # "number" \/ quantity.halves % 2 # 0 \/ quantity.halves < 2 * 1
       THEN Invalid("Quantity must be a positive integer")
     ELSE Valid([productId |-> productId.value, quantity |-> quantity.halves \div 2])

\* validateCheckoutItem(item)
validateCheckoutItem(item) ==
  LET productId == Field(item, "productId")
      quantity == Field(item, "quantity")
  IN IF ~IsObject(item) THEN Invalid("Item must be an object")
     ELSE IF productId.type # "string" \/ productId.value = ""
       THEN Invalid("Product ID must be a non-empty string")
     ELSE IF quantity.type # "number" \/ quantity.halves % 2 # 0 \/ quantity.halves < 2 * 1
       THEN Invalid("Quantity must be a positive integer")
     ELSE IF quantity.halves > 2 * MaxQuantity
       THEN Invalid("Quantity exceeds maximum allowed (1000)")
     ELSE Valid([productId |-> productId.value, quantity |-> quantity.halves \div 2])

\* The loop of validateCheckoutRequest from index itemIdx on: the first
\* failure, or the validated items.  The index the message names is left out.
RECURSIVE ValidateItemsFrom(_, _, _)
ValidateItemsFrom(items, itemIdx, validatedItems) ==
  IF itemIdx > Len(items) THEN Valid([items |-> validatedItems])
  ELSE LET itemValidation == validateCheckoutItem(items[itemIdx])
       IN IF ~itemValidation.success THEN Invalid(itemValidation.error)
          ELSE ValidateItemsFrom(items, itemIdx + 1, Append(validatedItems, itemValidation.data))

\* validateCheckoutRequest(body)
validateCheckoutRequest(body) ==
  LET items == Field(body, "items")
  IN IF ~IsObject(body) THEN Invalid("Request body must be an object")
     ELSE IF items.type # "array" THEN Invalid("Items must be an array")
     ELSE IF Len(items.elems) = 0 THEN Invalid("Items array cannot be empty")
     ELSE IF Len(items.elems) > MaxItems THEN Invalid("Cannot checkout more than 50 items at once")
     ELSE ValidateItemsFrom(items.elems, 1, <<>>)

\* The text of an email address is a sequence of characters; "A" is the
\* upper-case letter of "a", and " " is the white space.
Chars == {"a", "A", " ", "@", "."}

\* String.prototype.toLowerCase
toLowerCase(text) == [i \in 1..Len(text) |-> IF text[i] = "A" THEN "a" ELSE text[i]]

\* String.prototype.trim: the text without the white space at its ends.
RECURSIVE trimStart(_)
trimStart(text) ==
  IF text # <<>> /\ Head(text) = " " THEN trimStart(Tail(text)) ELSE text
RECURSIVE trimEnd(_)
trimEnd(text) ==
  IF text # <<>> /\ text[Len(text)] = " " THEN trimEnd(SubSeq(text, 1, Len(text) - 1)) ELSE text
trim(text) == trimEnd(trimStart(text))

\* EMAIL_REGEX.test(text), for /^[^\s@]+@[^\s@]+\.[^\s@]+$/: an "@" after at
\* least one character, a "." later with at least one character on each
\* side of it, and no white space or second "@" anywhere.
EMAIL_REGEX(text) ==
  \E at \in 2..(Len(text) - 3) : \E dot \in (at + 2)..(Len(text) - 1) :
    /\ text[at] = "@"
    /\ text[dot] = "."
    /\ \A k \in (1..Len(text)) \ {at} : text[k] \notin {" ", "@"}

MaxEmailLength == 320

\* Mutant of validateEmail: the letter case is kept.
validateEmailKeepsCase(email) ==
  IF email.type # "string" THEN Invalid("Email must be a string")
  ELSE IF Len(email.value) = 0 THEN Invalid("Email cannot be empty")
  ELSE IF ~EMAIL_REGEX(email.value) THEN Invalid("Invalid email format")
  ELSE IF Len(email.value) > MaxEmailLength THEN Invalid("Email exceeds maximum length")
  ELSE Valid(trim(email.value))

\* validateEmail(email)
validateEmail(email) ==
  IF email.type # "string" THEN Invalid("Email must be a string")
  ELSE IF Len(email.value) = 0 THEN Invalid("Email cannot be empty")
  ELSE IF ~EMAIL_REGEX(email.value) THEN Invalid("Invalid email format")
  ELSE IF Len(email.value) > MaxEmailLength THEN Invalid("Email exceeds maximum length")
  ELSE Valid(trim(toLowerCase(email.value)))

\* validateLoginRequest(body)
validateLoginRequest(body) ==
  LET emailValidation == validateEmail(Field(body, "email"))
  IN IF ~IsObject(body) THEN Invalid("Request body must be an object")
     ELSE IF ~emailValidation.success THEN Invalid(emailValidation.error)
     ELSE IF emailValidation.data = <<>> THEN Invalid("Email validation failed")
     ELSE Valid([email |-> emailValidation.data])

\* ------------------------------------------------ token check and routes
\* The token of no characters: the second part of "Bearer ".
NoToken == [sub |-> "", iss |-> "", aud |-> "", iat |-> 0, exp |-> 0, key |-> ""]

\* null
Absent == <<>>

\* An Authorization header: absent, or the parts authHeader.split(' ') gives,
\* the scheme first and the tokens after it.  The empty string splits into
\* one empty part.
NoHeader == [present |-> FALSE, scheme |-> "", args |-> <<>>]
Header(scheme, args) == [present |-> TRUE, scheme |-> scheme, args |-> args]

\* Mutant of extractTokenFromHeader: the scheme is not compared with "Bearer".
extractTokenFromHeaderAnyScheme(authHeader) ==
  IF ~authHeader.present \/ authHeader = Header("", <<>>) THEN Absent
  ELSE IF 1 + Len(authHeader.args) # 2 THEN Absent
  ELSE authHeader.args[1]

\* extractTokenFromHeader(authHeader)
extractTokenFromHeader(authHeader) ==
  IF ~authHeader.present \/ authHeader = Header("", <<>>) THEN Absent
  ELSE IF 1 + Len(authHeader.args) # 2 \/ authHeader.scheme # "Bearer" THEN Absent
  ELSE authHeader.args[1]

\* Mutant of verifyAccessToken: a token is accepted only while the user it
\* names is stored.
verifyAccessTokenKnownUser(token, t) ==
  IF token.key # jwtSecret \/ token.iss # jwtIssuer \/ token.aud # jwtAudience
       \/ token.exp <= t \/ token.sub \notin DOMAIN usersStorage
    THEN [ok |-> FALSE, sub |-> "", error |-> "Token verification failed"]
  ELSE [ok |-> TRUE, sub |-> token.sub, error |-> ""]

\* verifyAccessToken(token), called at time t: jwtVerify checks the signature
\* with the configured secret, then the issuer, the audience and the expiry.
verifyAccessToken(token, t) ==
  IF token.key # jwtSecret
    THEN [ok |-> FALSE, sub |-> "", error |-> "Token verification failed: signature verification failed"]
  ELSE IF token.iss # jwtIssuer
    THEN [ok |-> FALSE, sub |-> "", error |-> "Token verification failed: unexpected \"iss\" claim value"]
  ELSE IF token.aud # jwtAudience
    THEN [ok |-> FALSE, sub |-> "", error |-> "Token verification failed: unexpected \"aud\" claim value"]
  ELSE IF token.exp <= t
    THEN [ok |-> FALSE, sub |-> "", error |-> "Token verification failed: \"exp\" claim timestamp check failed"]
  ELSE [ok |-> TRUE, sub |-> token.sub, error |-> ""]

\* authenticationMiddleware: the status of the reply it sends (0 when it
\* sends none and the handler runs) and the user it attaches to the request.
authenticationMiddleware(authHeader, t) ==
  LET token == extractTokenFromHeader(authHeader)
  IN IF token = Absent \/ token = NoToken
       THEN [status |-> 401, user |-> "",
             message |-> "Missing or invalid Authorization header. Expected format: Bearer <token>"]
     ELSE LET payload == verifyAccessToken(token, t)
          IN IF payload.ok THEN [status |-> 0, user |-> payload.sub, message |-> ""]
             ELSE [status |-> 401, user |-> "", message |-> payload.error]

NoRequest == [authorization |-> NoHeader, items |-> <<>>, at |-> 0, handled |-> FALSE]

\* One POST /checkout with a valid body: the preHandler hook runs first, and
\* the handler runs only when the hook has sent no reply.  The hook writes
\* nothing the handler reads, so the await between them is not a step of its
\* own.
PostCheckout(authHeader, items) ==
  LET auth == authenticationMiddleware(authHeader, now)
  IN IF auth.status = 401
       THEN /\ lastRequest' = [authorization |-> authHeader, items |-> items, at |-> now,
                               handled |-> FALSE]
            /\ lastReply' = [status |-> auth.status, error |-> auth.message, body |-> NoResponse]
            /\ UNCHANGED authVars
            /\ UNCHANGED checkoutVars
            /\ UNCHANGED <<verdicts, arrivals, lastQuery>>
       ELSE /\ HandleCheckout(items)
            /\ lastRequest' = [authorization |-> authHeader, items |-> items, at |-> now,
                               handled |-> TRUE]
            /\ UNCHANGED <<verdicts, arrivals, lastQuery>>

\* One POST /auth/login: the handler validates the body and replies 400
\* INVALID_REQUEST, or calls handleLogin with the validated address and
\* replies 200 with what it returns.
PostLogin(body) ==
  LET validation == validateLoginRequest(body)
  IN /\ lastQuery' = [op |-> "validateLoginRequest", body |-> body, result |-> validation]
     /\ IF ~validation.success
          THEN /\ lastReply' = [status |-> 400, error |-> validation.error, body |-> NoResponse]
               /\ UNCHANGED authVars
               /\ UNCHANGED checkoutVars
          ELSE /\ LoginWrites(validation.data.email)
               /\ lastReply' = [status |-> 200, error |-> "", body |-> LoginResponse]
     /\ UNCHANGED <<lastRequest, verdicts>>

\* The server handles the next login request that has arrived.
ReceiveLogin ==
  /\ arrivals.next <= Len(arrivals.messages)
  /\ PostLogin(arrivals.messages[arrivals.next])
  /\ arrivals' = [arrivals EXCEPT !.next = @ + 1]

\* One POST /checkout with any body: after the hook the handler validates the
\* body and replies 400 INVALID_REQUEST, or goes on as above with the
\* validated items.
PostCheckoutBody(authHeader, body) ==
  LET auth == authenticationMiddleware(authHeader, now)
      validation == validateCheckoutRequest(body)
  IN IF auth.status = 401
       THEN /\ lastRequest' = [authorization |-> authHeader, items |-> <<>>, at |-> now,
                               handled |-> FALSE]
            /\ lastReply' = [status |-> auth.status, error |-> auth.message, body |-> NoResponse]
            /\ UNCHANGED authVars
            /\ UNCHANGED checkoutVars
            /\ UNCHANGED <<verdicts, arrivals, lastQuery>>
     ELSE IF ~validation.success
       THEN /\ lastRequest' = [authorization |-> authHeader, items |-> <<>>, at |-> now,
                               handled |-> FALSE]
            /\ lastReply' = [status |-> 400, error |-> validation.error, body |-> NoResponse]
            /\ lastQuery' = [op |-> "validateCheckoutRequest", body |-> body,
                             result |-> validation]
            /\ UNCHANGED authVars
            /\ UNCHANGED checkoutVars
            /\ UNCHANGED <<verdicts, arrivals>>
     ELSE /\ HandleCheckout(validation.data.items)
          /\ lastRequest' = [authorization |-> authHeader, items |-> validation.data.items,
                             at |-> now, handled |-> TRUE]
          /\ lastQuery' = [op |-> "validateCheckoutRequest", body |-> body,
                           result |-> validation]
          /\ UNCHANGED <<verdicts, arrivals>>

\* One verifyAccessToken call on a token the service has returned; the history
\* keeps the result with the instant and whether the stores still hold the
\* code and the user the token came from.
Verify(issuedToken) ==
  /\ Cardinality(verdicts) < MaxVerdicts
  /\ verdicts' = verdicts \cup
       {[accessToken |-> issuedToken.accessToken, at |-> now,
         ok |-> verifyAccessToken(issuedToken.accessToken, now).ok,
         codeStored |-> issuedToken.code \in DOMAIN authCodesStorage,
         userStored |-> issuedToken.accessToken.sub \in DOMAIN usersStorage]}
  /\ UNCHANGED <<lastRequest, lastReply, arrivals, lastQuery>>
  /\ UNCHANGED authVars
  /\ UNCHANGED checkoutVars

NoQuery == [op |-> "none"]
NoArrivals == [messages |-> <<>>, next |-> 1]

\* One call of extractTokenFromHeader.
Extract(authHeader) ==
  /\ lastQuery' = [op |-> "extractTokenFromHeader", header |-> authHeader,
                   result |-> extractTokenFromHeader(authHeader)]
  /\ UNCHANGED <<lastRequest, lastReply, verdicts>>
  /\ UNCHANGED authVars
  /\ UNCHANGED checkoutVars

\* The header of the next request that has arrived is looked at.
ReceiveHeader ==
  /\ arrivals.next <= Len(arrivals.messages)
  /\ Extract(arrivals.messages[arrivals.next])
  /\ arrivals' = [arrivals EXCEPT !.next = @ + 1]

\* One call of checkProductAvailability on the store as it is.
CheckAvailability(productId, requestedQuantity) ==
  /\ lastQuery' = [op |-> "checkProductAvailability", productId |-> productId,
                   quantity |-> requestedQuantity,
                   result |-> checkProductAvailability(productsStorage, productId,
                                                       requestedQuantity)]
  /\ UNCHANGED <<lastRequest, lastReply, verdicts, arrivals>>
  /\ UNCHANGED authVars
  /\ UNCHANGED checkoutVars

\* One call of getCatalogue on the store as it is.
List(page, limit) ==
  /\ lastQuery' = [op |-> "getCatalogue", page |-> page, limit |-> limit,
                   result |-> getCatalogue(productsStorage, page, limit)]
  /\ UNCHANGED <<lastRequest, lastReply, verdicts, arrivals>>
  /\ UNCHANGED authVars
  /\ UNCHANGED checkoutVars

\* One call of getProductById on the store as it is.
GetActiveById(productId) ==
  /\ lastQuery' = [op |-> "getProductById", productId |-> productId,
                   result |-> getProductById(productsStorage, productId)]
  /\ UNCHANGED <<lastRequest, lastReply, verdicts, arrivals>>
  /\ UNCHANGED authVars
  /\ UNCHANGED checkoutVars

\* The next request that has arrived is a POST /checkout whose token and body
\* passed: processCheckout runs on its lines, and the call is traced.
ReceiveCheckout ==
  /\ arrivals.next <= Len(arrivals.messages)
  /\ LET items == arrivals.messages[arrivals.next]
     IN /\ Checkout(items)
        /\ lastQuery' = [op |-> "processCheckout", items |-> items, store |-> productsStorage,
                         debit |-> DebitTrace(productsStorage, items, CheckoutResult(items))]
  /\ arrivals' = [arrivals EXCEPT !.next = @ + 1]
  /\ UNCHANGED <<lastRequest, lastReply, verdicts>>

\* clearAllStorage: the three Maps are emptied.
clearAllStorage ==
  /\ productsStorage' = EmptyMap
  /\ usersStorage' = EmptyMap
  /\ authCodesStorage' = EmptyMap
  /\ UNCHANGED <<now, inflight, issued, passed, redeemed, lastRedeem, minting, tokens, unswept>>
  /\ UNCHANGED <<checkoutImpl, seeded, sold, checkouts, lastCheckout>>
  /\ UNCHANGED httpVars

\* The clock advances by the lifetime of an access token.
Advance ==
  /\ now <= MaxTime
  /\ now' = now + TokenTTL
  /\ UNCHANGED <<usersStorage, authCodesStorage, inflight, issued, passed, redeemed, lastRedeem,
                 minting, tokens, unswept>>
  /\ UNCHANGED checkoutVars
  /\ UNCHANGED httpVars

\* ------------------------------------------------------- specifications
\* loadInitialProducts either stores the products of data/products.json or,
\* when the file cannot be read, leaves the store empty.
SeedInventory(n) == [p \in Seeded |-> IF p = "prod_1" THEN n ELSE MaxSeed]

SeedStore(inv) ==
  [p \in Seeded |-> [id |-> p, title |-> SeedTitle(p), status |-> SeedStatus(p),
                     price |-> SeedPrice(p), inventory |-> inv[p],
                     variants |-> SeedVariants(p)]]

InitAuth ==
  /\ now = 0
  /\ usersStorage = EmptyMap
  /\ authCodesStorage = EmptyMap
  /\ inflight = [c \in Codes |-> 0]
  /\ issued = EmptyMap
  /\ passed = [c \in Codes |-> 0]
  /\ redeemed = [c \in Codes |-> 0]
  /\ lastRedeem = NoRedeem
  /\ minting = [c \in Codes |-> <<>>]
  /\ tokens = {}
  /\ unswept = EmptyMap

InitCheckout ==
  /\ checkoutImpl \in {"rollback", "plain"}
  /\ \E n \in 0..MaxSeed :
       /\ seeded = SeedInventory(n)
       /\ productsStorage \in {SeedStore(seeded), EmptyMap}
  /\ sold = [p \in Seeded |-> 0]
  /\ checkouts = 0
  /\ lastCheckout = NoCheckout

InitHttp ==
  /\ lastRequest = NoRequest
  /\ lastReply = NoReply
  /\ verdicts = {}
  /\ arrivals = NoArrivals
  /\ lastQuery = NoQuery

Init == InitAuth /\ InitCheckout /\ InitHttp

\* The addresses differ in nothing but their name, so the first login of a
\* run is taken to be with the first of them.
LoginEmails == IF issued = EmptyMap THEN {"a@b.com"} ELSE Emails

NextAuth ==
  \/ \E email \in LoginEmails : handleLogin(email)
  \/ \E code \in Codes : ExchangeStart(code)
  \/ \E code \in Codes : ExchangeReturn(code)
  \/ \E code \in Codes : ExchangeMintFail(code)
  \/ cleanupExpiredAuthCodes
  \/ Tick

NextCheckout ==
  \E n \in 1..MaxLines : \E items \in [1..n -> CheckoutItems] :
    Checkout(items) /\ UNCHANGED httpVars

\* The auth flow and the reaper, over a loaded store.
InitLoaded ==
  /\ Init
  /\ checkoutImpl = "rollback"
  /\ seeded = SeedInventory(MaxSeed)
  /\ productsStorage = SeedStore(seeded)

SpecAuth == InitLoaded /\ [][NextAuth]_vars

\* The auth flow and the reaper under a well-formed JWT_EXPIRATION, with which
\* generateAccessToken does not reject.
NextConfigured ==
  \/ \E email \in LoginEmails : handleLogin(email)
  \/ \E code \in Codes : ExchangeStart(code)
  \/ \E code \in Codes : ExchangeReturn(code)
  \/ cleanupExpiredAuthCodes
  \/ Tick

SpecConfigured == InitLoaded /\ [][NextConfigured]_vars

\* The codes of one user under the timer of startAuthCodeCleanup: setInterval
\* fires the sweep again and again, so a sweep that has something to delete
\* is not put off for ever.  Nothing obliges a client to log in or to redeem,
\* and the clock of the model stops at MaxTime.
NextReaper ==
  \/ handleLogin("a@b.com")
  \/ \E code \in Codes : ExchangeStart(code)
  \/ \E code \in Codes : ExchangeReturn(code)
  \/ cleanupExpiredAuthCodes
  \/ Tick

SpecReaper == InitLoaded /\ [][NextReaper]_vars /\ WF_vars(cleanupExpiredAuthCodes)

\* Tokens are issued and verified while logins, redemptions, sweeps and
\* clearAllStorage change the stores and the clock passes their expiry.
NextVerify ==
  \/ \E email \in LoginEmails : handleLogin(email)
  \/ \E code \in Codes : ExchangeStart(code)
  \/ \E code \in Codes : ExchangeReturn(code)
  \/ cleanupExpiredAuthCodes
  \/ clearAllStorage
  \/ Advance
  \/ \E issuedToken \in tokens : Verify(issuedToken)

SpecVerify == InitLoaded /\ [][NextVerify]_vars

\* The tokens a client can put into a header: those the service returned,
\* those with a claim changed by someone who holds the secret, and those
\* signed with another key.
Presentable ==
  LET returned == {r.accessToken : r \in tokens}
      selfMade == generateAccessToken("a@b.com", now)
  IN returned
       \cup {[t EXCEPT !.iss = "another-issuer"] : t \in returned}
       \cup {[t EXCEPT !.aud = "another-audience"] : t \in returned}
       \cup {[t EXCEPT !.key = "another-secret"] : t \in returned \cup {selfMade}}

\* The Authorization headers of the requests: none, "Bearer" alone, "Bearer "
\* with nothing after the space, one token after "Bearer" or "Basic", and two
\* tokens after "Bearer".
Headers ==
  {NoHeader, Header("Bearer", <<>>), Header("Bearer", <<NoToken>>)}
    \cup {Header(scheme, <<t>>) : scheme \in {"Bearer", "Basic"}, t \in Presentable}
    \cup {Header("Bearer", <<r.accessToken, r.accessToken>>) : r \in tokens}

\* The body of the requests: one unit of prod_1.
OneOfProd1 == <<[productId |-> "prod_1", quantity |-> 1]>>

\* POST /checkout with every kind of Authorization header, while tokens are
\* issued and expire.
NextHttp ==
  \/ \E email \in LoginEmails : handleLogin(email)
  \/ \E code \in Codes : ExchangeStart(code)
  \/ \E code \in Codes : ExchangeReturn(code)
  \/ Advance
  \/ \E authHeader \in Headers : PostCheckout(authHeader, OneOfProd1)

SpecHttp == InitLoaded /\ [][NextHttp]_vars

\* The stores loadInitialProducts can leave: of each product of the file,
\* absent or present with any status and any stock up to MaxSeed.
Statuses == {"active", "draft", "archived"}
CatalogueStores ==
  UNION {[ids -> [status : Statuses, inventory : 0..MaxSeed]] : ids \in SUBSET Seeded}
StoreOf(loaded) ==
  [p \in DOMAIN loaded |-> [id |-> p, title |-> SeedTitle(p), status |-> loaded[p].status,
                            price |-> SeedPrice(p), inventory |-> loaded[p].inventory,
                            variants |-> SeedVariants(p)]]

InitCatalogue ==
  /\ InitAuth
  /\ InitHttp
  /\ checkoutImpl = "rollback"
  /\ \E loaded \in CatalogueStores :
       /\ productsStorage = StoreOf(loaded)
       /\ seeded = [p \in Seeded |-> IF p \in DOMAIN loaded THEN loaded[p].inventory ELSE 0]
  /\ sold = [p \in Seeded |-> 0]
  /\ checkouts = 0
  /\ lastCheckout = NoCheckout

\* The pages and page sizes asked for: the first pages, and the sizes 1, 2
\* and the largest the validator lets through.
MaxPage == 4
MaxLimit == 100
Limits == {1, 2, MaxLimit}

\* The read operations of the catalogue service on every such store.
NextCatalogue ==
  \/ \E productId \in ProductIds : \E quantity \in 1..(MaxSeed + 1) :
       CheckAvailability(productId, quantity)
  \/ \E page \in 1..MaxPage : \E limit \in Limits : List(page, limit)
  \/ \E productId \in ProductIds : GetActiveById(productId)

SpecCatalogue == InitCatalogue /\ [][NextCatalogue]_vars

\* The values of the Authorization header: none, and every string of up to
\* four parts whose first is a scheme name in some letter case or empty and
\* whose others are tokens or empty.
Schemes == {"Bearer", "bearer", "BEARER", "Basic", ""}
MaxParts == 4
SampleTokens == {generateAccessToken(email, t) : email \in Emails, t \in {0, MaxTime}}
HeaderValues ==
  {NoHeader} \cup
  UNION {{Header(scheme, args) : scheme \in Schemes,
                                 args \in [1..n -> SampleTokens \cup {NoToken}]}
           : n \in 0..(MaxParts - 1)}

\* The loaded server with requests on their way to it.
InitArrived(queues) ==
  /\ InitAuth
  /\ InitCheckout
  /\ checkoutImpl = "rollback"
  /\ seeded = SeedInventory(MaxSeed)
  /\ productsStorage = SeedStore(seeded)
  /\ lastRequest = NoRequest
  /\ lastReply = NoReply
  /\ verdicts = {}
  /\ lastQuery = NoQuery
  /\ \E messages \in queues : arrivals = [messages |-> messages, next |-> 1]

InitHeaders == InitArrived({<<authHeader>> : authHeader \in HeaderValues})

NextHeaders == ReceiveHeader

SpecHeaders == InitHeaders /\ [][NextHeaders]_vars

\* The bodies of the requests.  Quantities: below, at and above both limits,
\* fractions, and values that are not numbers.  Product ids: a string, the
\* empty string, a number, none.  Items: of every product id and quantity,
\* and values that are not objects.  Arrays: empty, of one item, of a
\* well-formed item before an item of the same product or before a value
\* that is no object, of MaxItems and of MaxItems + 1
\* well-formed items, and of MaxItems items of which the last is not one.
QuantityValues ==
  {JsonNumber(halves) :
     halves \in {-2, 0, 1, 2, 3, 2 * MaxQuantity, 2 * MaxQuantity + 1, 2 * MaxQuantity + 2}}
    \cup {JsonString("1"), JsonNull, Undefined}
ProductIdValues ==
  {JsonString("prod_1"), JsonString(""), JsonNumber(2), Undefined}
ItemValues ==
  {JsonItem(productId, quantity) : productId \in ProductIdValues, quantity \in QuantityValues}
    \cup {JsonNull, JsonString("prod_1"), JsonArray(<<>>)}
OneOfProd1Json == JsonItem(JsonString("prod_1"), JsonNumber(2))
ItemArrays ==
  {<<>>}
    \cup {<<item>> : item \in ItemValues}
    \cup {<<OneOfProd1Json, item>> : item \in ItemValues \ {JsonItem(productId, quantity) :
             productId \in ProductIdValues \ {JsonString("prod_1")}, quantity \in QuantityValues}}
    \cup {[i \in 1..n |-> OneOfProd1Json] : n \in {MaxItems, MaxItems + 1}}
    \cup {[i \in 1..MaxItems |-> IF i < MaxItems THEN OneOfProd1Json ELSE JsonNull]}
Bodies ==
  {JsonBody(JsonArray(elems)) : elems \in ItemArrays}
    \cup {JsonBody(items) : items \in {Undefined, JsonNull, JsonString("prod_1"), OneOfProd1Json}}
    \cup {JsonNull, JsonString("items"), JsonArray(<<OneOfProd1Json>>)}

\* A token the service issues, in the header of every request.
Authorized == Header("Bearer", <<generateAccessToken("a@b.com", 0)>>)

\* POST /checkout with every such body and a token that verifies.
NextValidation == \E body \in Bodies : PostCheckoutBody(Authorized, body)

SpecValidation == InitLoaded /\ [][NextValidation]_vars

\* The texts sent as email: every text of up to MaxEmailChars characters,
\* every text of one character, "@", one character, "." and one character,
\* and addresses of MaxEmailLength and of MaxEmailLength + 1 characters.
MaxEmailChars == 4
LongEmail(n) == [i \in 1..n |-> IF i <= n - 4 THEN "a" ELSE <<"@", "a", ".", "A">>[i - (n - 4)]]
EmailTexts ==
  UNION {[1..n -> Chars] : n \in 0..MaxEmailChars}
    \cup {<<local, "@", domain, ".", tld>> : local \in Chars, domain \in Chars, tld \in Chars}
    \cup {LongEmail(MaxEmailLength), LongEmail(MaxEmailLength + 1)}

\* The same text in the other letter case, and with white space around it.
OtherCase(text) ==
  [i \in 1..Len(text) |-> CASE text[i] = "a" -> "A" [] text[i] = "A" -> "a" [] OTHER -> text[i]]
Variants(text) == {OtherCase(text), <<" ">> \o text, text \o <<" ">>, <<" ">> \o text \o <<" ">>}

JsonLogin(email) == [type |-> "object", email |-> email]

\* Two login requests: the first with any text, the second with a variant of
\* it; or one request whose email is no string or whose body is no object.
LoginQueues ==
  UNION {{<<JsonLogin(JsonString(text)), JsonLogin(JsonString(other))>> :
            other \in Variants(text)} : text \in EmailTexts}
    \cup {<<body>> : body \in {JsonLogin(JsonNumber(2)), JsonLogin(JsonNull),
                               JsonLogin(Undefined), JsonNull, JsonString("email")}}

InitEmail == InitArrived(LoginQueues)

NextEmail == ReceiveLogin

SpecEmail == InitEmail /\ [][NextEmail]_vars

\* Addresses that pass validation, of two users; the first is not in the
\* letter case of its user key.
AddressTexts == {<<"A", "@", "a", ".", "a">>, <<".", "@", "a", ".", "a">>}

\* POST /auth/login with such addresses while codes are redeemed and expire.
NextLogin ==
  \/ \E text \in AddressTexts :
       PostLogin(JsonLogin(JsonString(text))) /\ UNCHANGED arrivals
  \/ \E code \in Codes : ExchangeStart(code)
  \/ \E code \in Codes : ExchangeReturn(code)
  \/ Tick

SpecLogin == InitLoaded /\ [][NextLogin]_vars

\* The checkout transaction, in either build, over every seeding.
SpecCheckout == Init /\ [][NextCheckout]_vars

\* The handler of POST /checkout with its replies, in either build, over the
\* full seeding and over the empty store.
InitReplies ==
  /\ Init
  /\ seeded = SeedInventory(MaxSeed)

NextReplies ==
  \E n \in 1..MaxLines : \E items \in [1..n -> CheckoutItems] :
    HandleCheckout(items) /\ UNCHANGED <<lastRequest, verdicts, arrivals, lastQuery>>

SpecReplies == InitReplies /\ [][NextReplies]_vars

\* POST /checkout with a token that verifies and a body of up to MaxLines
\* lines of one unit each, in either build, on the seeded and on the empty
\* store.
UnitItems == [productId : ProductIds, quantity : {1}]

NextEndpoint ==
  \E n \in 1..MaxLines : \E items \in [1..n -> UnitItems] : PostCheckout(Authorized, items)

SpecEndpoint == InitReplies /\ [][NextEndpoint]_vars

\* The store and the requests of the worked example: one active product
\* prod_1 at 19.99 with ten in stock, and orders of three and of a hundred.
ScenarioStore ==
  [p \in {"prod_1"} |-> [id |-> p, title |-> SeedTitle(p), status |-> "active", price |-> 1999,
                          inventory |-> 10, variants |-> SeedVariants(p)]]

ThreeOfProd1 == <<[productId |-> "prod_1", quantity |-> 3]>>
HundredOfProd1 == <<[productId |-> "prod_1", quantity |-> 100]>>
ScenarioItems == {ThreeOfProd1, HundredOfProd1}

InitScenario ==
  /\ InitAuth
  /\ InitHttp
  /\ checkoutImpl \in {"rollback", "plain"}
  /\ productsStorage = ScenarioStore
  /\ seeded = [p \in Seeded |-> IF p \in DOMAIN ScenarioStore THEN ScenarioStore[p].inventory ELSE 0]
  /\ sold = [p \in Seeded |-> 0]
  /\ checkouts = 0
  /\ lastCheckout = NoCheckout

\* Logins, redemptions and checkouts with the tokens returned, in any order
\* and number, with no sweep and no time passing between them.
NextScenario ==
  \/ \E email \in LoginEmails : handleLogin(email)
  \/ \E code \in Codes : ExchangeStart(code)
  \/ \E code \in Codes : ExchangeReturn(code)
  \/ \E r \in tokens : \E items \in ScenarioItems :
       PostCheckout(Header("Bearer", <<r.accessToken>>), items)

SpecScenario == InitScenario /\ [][NextScenario]_vars

\* One processCheckout call, traced, in either build, on every seeding and on
\* the empty store: of up to MaxLines + 1 lines, so that a line can follow
\* the line whose debit fails.
TracedItems == UNION {[1..n -> CheckoutItems] : n \in 1..(MaxLines + 1)}

InitDebit ==
  /\ InitAuth
  /\ InitCheckout
  /\ lastRequest = NoRequest
  /\ lastReply = NoReply
  /\ verdicts = {}
  /\ lastQuery = NoQuery
  /\ \E items \in TracedItems : arrivals = [messages |-> <<items>>, next |-> 1]

NextDebit == ReceiveCheckout

SpecDebit == InitDebit /\ [][NextDebit]_vars

\* One processCheckout call, traced, in either build, on the products of the
\* file stored with any status.
RequestItems == UNION {[1..n -> CheckoutItems] : n \in 1..MaxLines}

InitStatuses ==
  /\ InitAuth
  /\ checkoutImpl \in {"rollback", "plain"}
  /\ \E n \in 0..MaxSeed : \E status \in [Seeded -> Statuses] :
       /\ seeded = SeedInventory(n)
       /\ productsStorage = [p \in Seeded |-> [SeedStore(seeded)[p] EXCEPT !.status = status[p]]]
  /\ sold = [p \in Seeded |-> 0]
  /\ checkouts = 0
  /\ lastCheckout = NoCheckout
  /\ lastRequest = NoRequest
  /\ lastReply = NoReply
  /\ verdicts = {}
  /\ lastQuery = NoQuery
  /\ \E items \in RequestItems : arrivals = [messages |-> <<items>>, next |-> 1]

NextStatuses == ReceiveCheckout

SpecStatuses == InitStatuses /\ [][NextStatuses]_vars

\* The operations of the core side by side, in either build, over every
\* seeding of the loaded store: logins, redemptions, sweeps, the first page of
\* the catalogue and checkouts, at one instant of the clock.  The checkouts
\* are of two units of prod_1 in one line and in two, and of an active and a
\* draft product.
CoreItems ==
  {<<[productId |-> "prod_1", quantity |-> 2]>>,
   <<[productId |-> "prod_1", quantity |-> 1], [productId |-> "prod_1", quantity |-> 1]>>,
   <<[productId |-> "prod_2", quantity |-> 1], [productId |-> "prod_3", quantity |-> 1]>>}

InitCore ==
  /\ Init
  /\ productsStorage # EmptyMap

NextCore ==
  \/ handleLogin("a@b.com")
  \/ \E code \in Codes : ExchangeStart(code)
  \/ \E code \in Codes : ExchangeReturn(code)
  \/ cleanupExpiredAuthCodes
  \/ List(1, MaxLimit)
  \/ \E items \in CoreItems : Checkout(items) /\ UNCHANGED httpVars

SpecCore == InitCore /\ [][NextCore]_vars

\* ================================================================ claims
Stores == <<authCodesStorage, usersStorage, productsStorage>>

\* The most recent Redeem was a call on a code that had been issued.
LastOnIssued == lastRedeem.outcome # "none" /\ lastRedeem.priorIssued

\* A step of the model is a processCheckout call.
CheckoutStep == checkouts' = checkouts + 1

\* C1: for every authorization code, over any interleaving of Login, Redeem
\* and reaper sweeps, at most one Redeem call on it returns an access token.
C1_AtMostOneToken == \A c \in Codes : redeemed[c] <= 1

\* A code has returned its token and a later Redeem call was made on it.
C1_Witness ==
  /\ lastRedeem.outcome # "none"
  /\ lastRedeem.priorRedeemed
  /\ redeemed[lastRedeem.code] = 1

\* C2: of the Redeem calls dispatched on one unused, unexpired code, the first
\* to run observes used = false and marks it, no second call ever passes the
\* checks, and a call that runs while the first is suspended at its await
\* observes used = true and fails with the already-used error.
C2_CheckAndMarkAtomic ==
  /\ \A c \in Codes : passed[c] <= 1
  /\ \A c \in Codes : inflight[c] <= 1
  /\ (LastOnIssued /\ ~lastRedeem.priorPassed
        /\ ~lastRedeem.priorExpired)
       => lastRedeem.outcome = Marked
  /\ (LastOnIssued /\ lastRedeem.priorPassed /\ lastRedeem.priorPresent)
       => lastRedeem.outcome = MsgUsed

\* Two calls on one code are in flight together: the first is still at its
\* await when the second is answered "already used".
C2_Witness ==
  /\ lastRedeem.outcome = MsgUsed
  /\ lastRedeem.priorPassed
  /\ ~lastRedeem.priorRedeemed
  /\ inflight[lastRedeem.code] = 1

\* C3: when processCheckout fails in the debit pass, every product's
\* inventory is what it was immediately before the request (each debit
\* applied in the request re-added exactly once).
C3_RollbackRestores ==
  [][(CheckoutStep /\ lastCheckout'.outcome = "InventoryUpdateFailed")
       => productsStorage' = productsStorage]_vars

\* C4: a checkout request with a line that fails the availability check
\* changes no product's inventory, whichever line it is, and returns no
\* priced result and no payment intent.
C4_NoPartialApply ==
  [][(CheckoutStep /\ lastCheckout'.unavailable # {})
       => /\ productsStorage' = productsStorage
          /\ sold' = sold
          /\ lastCheckout'.outcome \in {"ItemUnavailable", "EmptyCatalogue"}
          /\ lastCheckout'.response = NoResponse]_vars

\* A request of several lines was rejected on its last line only, after an
\* earlier request had succeeded.
C4_Witness ==
  /\ lastCheckout.lines >= 2
  /\ lastCheckout.unavailable = {lastCheckout.lines}
  /\ lastCheckout.outcome = "ItemUnavailable"
  /\ lastCheckout.failedAt = lastCheckout.lines
  /\ \E p \in Seeded : sold[p] > 0

\* C5: in every reachable state every product's inventory is an integer
\* greater than or equal to zero.
C5_InventoryNonNegative ==
  \A p \in DOMAIN productsStorage : productsStorage[p].inventory \in Nat

\* Checkouts have sold a product out.
C5_Witness ==
  \E p \in DOMAIN productsStorage :
    productsStorage[p].inventory = 0 /\ sold[p] > 0 /\ sold[p] = seeded[p]

\* C6: for every product, the quantities of the checkouts that returned
\* success never add up to more than the seeded inventory.
C6_NoOversell == \A p \in Seeded : sold[p] <= seeded[p]

\* C7 as stated: after a Redeem of a code has returned its token, every later
\* Redeem of that code fails with the already-used error.
C7_AlwaysAlreadyUsed ==
  (lastRedeem.outcome # "none" /\ lastRedeem.priorRedeemed) => lastRedeem.outcome = MsgUsed

\* C7 as amended: after a Redeem of a code has returned its token, every
\* later Redeem of that code fails: with the already-used error while the
\* entry is in the store, with the invalid-code error once it was removed.
C7_UsedOrRemoved ==
  (lastRedeem.outcome # "none" /\ lastRedeem.priorRedeemed)
    => lastRedeem.outcome = IF lastRedeem.priorPresent THEN MsgUsed ELSE MsgInvalid

\* A redeemed code was removed and a Redeem of it was answered "invalid".
C7_Witness ==
  /\ lastRedeem.priorRedeemed
  /\ ~lastRedeem.priorPresent
  /\ lastRedeem.outcome = MsgInvalid

\* C8 as stated, for the codes no Redeem call has yet marked used: every
\* Redeem made after the expiry instant fails with the expired error.
C8_AlwaysExpired ==
  (LastOnIssued /\ ~lastRedeem.priorPassed
     /\ lastRedeem.priorExpired)
    => lastRedeem.outcome = MsgExpired

\* C8 as amended: a Redeem made after the expiry instant of an issued code
\* that has not returned a token fails: with the expired error when the entry
\* is stored and unused, with the already-used error when an earlier call
\* marked it, with the invalid-code error when the entry is gone.
C8_ExpiredOnceThenInvalid ==
  (LastOnIssued /\ ~lastRedeem.priorRedeemed
     /\ lastRedeem.priorExpired)
    => lastRedeem.outcome =
         IF ~lastRedeem.priorPresent THEN MsgInvalid
         ELSE IF lastRedeem.priorPassed THEN MsgUsed
         ELSE MsgExpired

\* An expired, never marked code was redeemed a second time.
C8_Witness ==
  /\ LastOnIssued
  /\ ~lastRedeem.priorPassed
  /\ lastRedeem.priorExpired
  /\ ~lastRedeem.priorPresent
  /\ lastRedeem.outcome = MsgInvalid

\* C9: Redeem fails in the order not-found, already-used, expired; the first
\* two leave the three stores as they were, and the third only deletes the
\* entry of that code.
C9_FailureOrderAndFrame ==
  [][\A c \in Codes :
       ExchangeStart(c) =>
         /\ c \notin DOMAIN authCodesStorage => lastRedeem'.outcome = MsgInvalid
         /\ (c \in DOMAIN authCodesStorage /\ authCodesStorage[c].used)
              => lastRedeem'.outcome = MsgUsed
         /\ (c \in DOMAIN authCodesStorage /\ ~authCodesStorage[c].used
               /\ now > authCodesStorage[c].expiresAt)
              => lastRedeem'.outcome = MsgExpired
         /\ lastRedeem'.outcome \in {MsgInvalid, MsgUsed} => UNCHANGED Stores
         /\ lastRedeem'.outcome = MsgExpired
              => /\ authCodesStorage' = MapDelete(authCodesStorage, c)
                 /\ c \in DOMAIN authCodesStorage
                 /\ UNCHANGED <<usersStorage, productsStorage>>]_vars

\* A used code that is also past its expiry was answered "already used",
\* and the entry is still stored.
C9_Witness ==
  /\ lastRedeem.outcome = MsgUsed
  /\ lastRedeem.priorExpired
  /\ lastRedeem.code \in DOMAIN authCodesStorage

\* The time of the first login of an email, from the history of issued codes.
FirstLogin(e) ==
  LET times == {issued[c].expiresAt - CodeTTL : c \in {d \in DOMAIN issued : issued[d].email = e}}
  IN CHOOSE t \in times : \A u \in times : t <= u

\* A Redeem of code d would pass the checks now.
Redeemable(store, d, t) == ExchangeOutcome(store, d, t) = Marked

\* C10: logins with one email keep the one User record of the first login
\* (same createdAt) and issue codes that are redeemable independently: each
\* passes its first Redeem before its expiry, and a step changes the used
\* flag or the redeemability of a code only if it is a Redeem of that code or
\* the clock passing that code's own expiry.
C10_OneUserIndependentCodes ==
  /\ [](/\ DOMAIN usersStorage = {issued[c].email : c \in DOMAIN issued}
        /\ \A e \in DOMAIN usersStorage :
             usersStorage[e] = [email |-> e, createdAt |-> FirstLogin(e)]
        /\ (LastOnIssued /\ ~lastRedeem.priorPassed
              /\ ~lastRedeem.priorExpired)
             => lastRedeem.outcome = Marked)
  /\ [][\A d \in DOMAIN authCodesStorage :
          ~ExchangeStart(d) =>
            /\ d \in DOMAIN authCodesStorage'
                 => authCodesStorage'[d] = authCodesStorage[d]
            /\ Redeemable(authCodesStorage, d, now)
                 => \/ Redeemable(authCodesStorage', d, now')
                    \/ now' > authCodesStorage[d].expiresAt]_vars

\* Two codes issued to one email at different times have both been redeemed.
C10_Witness ==
  \E c, d \in DOMAIN issued :
    /\ c # d
    /\ issued[c].email = issued[d].email
    /\ issued[c].expiresAt # issued[d].expiresAt
    /\ redeemed[c] = 1
    /\ redeemed[d] = 1

\* C11: every access token a Redeem of a code returns (or is waiting for) has
\* as subject the email the Login call bound to that code, and the binding of
\* a code to its email never changes, whatever other logins and redemptions
\* happen.
C11_TokenForBoundEmail ==
  /\ [](/\ \A r \in tokens :
             r.code \in DOMAIN issued /\ r.accessToken.sub = issued[r.code].email
        /\ \A c \in Codes : \A i \in 1..Len(minting[c]) :
             minting[c][i].sub = issued[c].email
        /\ \A c \in DOMAIN authCodesStorage :
             authCodesStorage[c].email = issued[c].email)
  /\ [][\A c \in DOMAIN issued :
          /\ c \in DOMAIN issued'
          /\ issued'[c].email = issued[c].email
          /\ c \in DOMAIN authCodesStorage'
               => authCodesStorage'[c].email = issued[c].email]_vars

\* The codes of two logins with different emails have both been redeemed, and
\* the two tokens returned have different subjects.
C11_Witness ==
  \E r, q \in tokens :
    /\ r.code # q.code
    /\ r.accessToken.sub = "a@b.com"
    /\ q.accessToken.sub = "c@d.com"
    /\ issued[r.code].email = "a@b.com"
    /\ issued[q.code].email = "c@d.com"

\* The sum of unitPrice * quantity over priced lines.
RECURSIVE SumOfLines(_)
SumOfLines(lines) ==
  IF lines = <<>> THEN 0
  ELSE Head(lines).unitPrice * Head(lines).quantity + SumOfLines(Tail(lines))

C13_ScenarioRuns ==
  /\ [](/\ 1 \in DOMAIN issued => issued[1].email = "a@b.com"
        /\ (LastOnIssued /\ lastRedeem.code = 1 /\ ~lastRedeem.priorPassed)
             => lastRedeem.outcome = Marked
        /\ \A r \in tokens : r.code = 1 => r.accessToken.sub = "a@b.com"
        /\ (lastRedeem.code = 1 /\ lastRedeem.priorRedeemed) => lastRedeem.outcome = MsgUsed)
  /\ [][(CheckoutStep /\ lastRequest'.items = ThreeOfProd1
           /\ productsStorage["prod_1"].inventory = 10)
          => /\ lastReply'.status = 200
             /\ lastReply'.body.success
             /\ lastReply'.body.totalAmount = 5997
             /\ productsStorage'["prod_1"].inventory = 7]_vars
  /\ [][(CheckoutStep /\ lastRequest'.items = HundredOfProd1
           /\ productsStorage["prod_1"].inventory = 7)
          => /\ lastReply'.status = 400
             /\ lastReply'.error = "Insufficient inventory"
             /\ lastReply'.body = NoResponse
             /\ productsStorage'["prod_1"].inventory = 7]_vars

\* The whole example has run: C1 was redeemed for a@b.com's token, redeemed
\* again and refused, three were bought with the token and the order of a
\* hundred was refused with seven left.
C13_Witness ==
  /\ redeemed[1] = 1
  /\ lastRedeem.code = 1
  /\ lastRedeem.priorRedeemed
  /\ lastRedeem.outcome = MsgUsed
  /\ checkouts = 2
  /\ sold["prod_1"] = 3
  /\ lastRequest.items = HundredOfProd1
  /\ lastRequest.authorization.args[1].sub = "a@b.com"
  /\ lastReply.status = 400
  /\ productsStorage["prod_1"].inventory = 7

\* The state of a code in the life cycle of an authorization code.
CodeState(codes, known, c, t) ==
  IF c \notin DOMAIN known THEN "None"
  ELSE IF c \notin DOMAIN codes THEN "Removed"
  ELSE IF codes[c].used THEN "Used"
  ELSE IF t > codes[c].expiresAt THEN "Expired"
  ELSE "Unused"

Live(codes, t) == {c \in DOMAIN codes : ~codes[c].used /\ ~(codes[c].expiresAt < t)}

\* C15: one sweep removes exactly the entries with used = true or
\* expiresAt < now: the code Map it leaves is the prior entries that are
\* unused and not past expiry, unchanged, the count it returns is the number
\* removed, and the user and product stores are as before.
C15_SweepRemovesExactlyDead ==
  /\ [](/\ DOMAIN authCodesStorage \ ReapedCodes(authCodesStorage, now)
             = Live(authCodesStorage, now)
        /\ removedCount(authCodesStorage, now)
             = Cardinality(DOMAIN authCodesStorage) - Cardinality(Live(authCodesStorage, now)))
  /\ [][cleanupExpiredAuthCodes =>
          /\ DOMAIN authCodesStorage' = Live(authCodesStorage, now)
          /\ \A c \in DOMAIN authCodesStorage' : authCodesStorage'[c] = authCodesStorage[c]
          /\ removedCount(authCodesStorage, now)
               = Cardinality(DOMAIN authCodesStorage) - Cardinality(DOMAIN authCodesStorage')
          /\ UNCHANGED <<usersStorage, productsStorage>>]_vars

\* A used code is gone, which only a sweep does, and an unused code that
\* expires at this very instant is stored.
C15_Witness ==
  \E c \in DOMAIN issued : \E d \in DOMAIN authCodesStorage :
    /\ c \notin DOMAIN authCodesStorage
    /\ passed[c] = 1
    /\ ~authCodesStorage[d].used
    /\ authCodesStorage[d].expiresAt = now

\* C16: sweeps do not change which redemptions succeed: every Redeem call
\* passes the checks exactly when the same call passes them against the code
\* Map that the same logins and redemptions, at the same clock readings, leave
\* when no sweep ever runs, and the same codes are redeemable in both.
C16_SweepsChangeNoOutcome ==
  /\ lastRedeem.outcome # "none"
       => (lastRedeem.outcome = Marked <=> lastRedeem.unswept = Marked)
  /\ \A c \in Codes :
       Redeemable(authCodesStorage, c, now) <=> Redeemable(unswept, c, now)

\* A sweep removed a used code, and the Redeem made of it afterwards failed
\* as it does without the sweep, where it is answered "already used"; another
\* code is still redeemable.
C16_Witness ==
  /\ lastRedeem.outcome = MsgInvalid
  /\ lastRedeem.unswept = MsgUsed
  /\ \E c \in Codes : Redeemable(authCodesStorage, c, now)

\* C17: a sweep that runs while a Redeem of a code is suspended at its await
\* leaves that call as it is, so the call can still return its token; no
\* other Redeem of the code passes the checks, before or after the sweep; and
\* no step other than the Redeem itself takes a redeemable code out of the
\* Map, so a sweep never deletes a code a request is about to redeem.
C17_SweepDuringRedeem ==
  /\ [](\A c \in Codes :
          /\ inflight[c] > 0 => ENABLED ExchangeReturn(c)
          /\ passed[c] <= 1)
  /\ [][/\ cleanupExpiredAuthCodes => UNCHANGED <<inflight, minting, tokens, redeemed>>
        /\ \A c \in DOMAIN authCodesStorage :
             Redeemable(authCodesStorage, c, now) => c \in DOMAIN authCodesStorage'
        /\ \A c \in Codes :
             (ExchangeStart(c) /\ inflight[c] > 0) => lastRedeem'.outcome # Marked]_vars

\* A sweep removed the entry of a code whose Redeem is still at its await, and
\* a second Redeem of the code was refused.
C17_Witness ==
  \E c \in Codes :
    /\ inflight[c] = 1
    /\ c \notin DOMAIN authCodesStorage
    /\ lastRedeem.code = c
    /\ lastRedeem.priorPassed
    /\ lastRedeem.outcome = MsgInvalid

\* C18: the outcome of Verify on an issued token depends only on the token
\* and the clock: two verifications of the same token at the same instant
\* agree, whatever happened to the code, user and product stores between
\* them, and a token verifies exactly as long as its exp has not passed, so
\* no operation invalidates it earlier.
C18_VerifyIgnoresStores ==
  /\ \A v, w \in verdicts :
       (v.accessToken = w.accessToken /\ v.at = w.at) => v.ok = w.ok
  /\ \A v \in verdicts : v.ok <=> v.at < v.accessToken.exp

\* One token was verified twice at one instant, before and after its code and
\* its user were taken out of the stores, and accepted both times.
C18_Witness ==
  \E v, w \in verdicts :
    /\ v.accessToken = w.accessToken
    /\ v.at = w.at
    /\ v.codeStored /\ v.userStored
    /\ ~w.codeStored /\ ~w.userStored
    /\ v.ok /\ w.ok

\* The header has the shape "Bearer <token>".
BearerShape(authHeader) ==
  /\ authHeader.present
  /\ authHeader.scheme = "Bearer"
  /\ Len(authHeader.args) = 1
  /\ authHeader.args[1] # NoToken

\* The token passes verification at time t: signed with the secret, of the
\* configured issuer and audience, and not expired.
PassesVerification(token, t) ==
  /\ token.key = jwtSecret
  /\ token.iss = jwtIssuer
  /\ token.aud = jwtAudience
  /\ t < token.exp

\* The request carries no header, a header of another shape, or a token that
\* fails verification at the time of the request.
Unauthorized(request) ==
  ~(/\ BearerShape(request.authorization)
    /\ PassesVerification(request.authorization.args[1], request.at))

\* C19: a checkout request whose Authorization header is absent, is not of
\* the Bearer shape, or carries a token that fails verification (bad
\* signature, expired, wrong issuer or audience) is answered 401 and
\* processCheckout is not run for it: no product's inventory and no other
\* store changes.
C19_UnauthorizedIsRejected ==
  [][((lastRequest' # lastRequest \/ checkouts' # checkouts) /\ Unauthorized(lastRequest'))
       => /\ lastReply'.status = 401
          /\ ~lastRequest'.handled
          /\ checkouts' = checkouts
          /\ UNCHANGED Stores
          /\ UNCHANGED <<sold, lastCheckout>>]_vars

\* A token the service returned bought something, and after its exp had
\* passed a request with it was answered 401.
C19_Witness ==
  /\ lastReply.status = 401
  /\ ~lastRequest.handled
  /\ BearerShape(lastRequest.authorization)
  /\ \E r \in tokens : r.accessToken = lastRequest.authorization.args[1]
  /\ lastRequest.at >= lastRequest.authorization.args[1].exp
  /\ \E p \in Seeded : sold[p] > 0

\* The messages that report the catalogue as unavailable.
CatalogueUnavailable ==
  {"Product catalogue is currently unavailable. Unable to process checkout. Please try again later.",
   "Product catalogue is currently unavailable. Please try again later."}

C21_FirstReasonInOrder ==
  /\ [](LET q == lastQuery
            store == productsStorage
        IN (q.op = "checkProductAvailability" /\ DOMAIN store # {}) =>
             LET exists == q.productId \in DOMAIN store
                 active == exists /\ store[q.productId].status = "active"
                 enough == exists /\ store[q.productId].inventory >= q.quantity
             IN /\ ~exists => q.result.error = "Product not found"
                /\ (exists /\ ~active) => q.result.error = "Product is not available for purchase"
                /\ (active /\ ~enough) => q.result.error = "Insufficient inventory"
                /\ q.result.available <=> (active /\ enough)
                /\ q.result.available <=> q.result.error = "")
  /\ [][lastQuery' # lastQuery => UNCHANGED Stores]_vars

\* An archived or draft product with less stock than asked for was reported
\* as not active.
C21_Witness ==
  /\ lastQuery.op = "checkProductAvailability"
  /\ lastQuery.productId \in DOMAIN productsStorage
  /\ productsStorage[lastQuery.productId].status # "active"
  /\ productsStorage[lastQuery.productId].inventory < lastQuery.quantity
  /\ lastQuery.result.error = "Product is not available for purchase"

\* The ids of the active products of the store, in the order of the store.
ActiveIds == SelectSeq(ProductOrder, LAMBDA p : p \in DOMAIN productsStorage
                                                /\ productsStorage[p].status = "active")

\* The most recent read was a getCatalogue call.
Listed == lastQuery.op = "getCatalogue"

\* C22: for every page >= 1 and limit in 1..100, getCatalogue returns
\* totalItems equal to the number of active products, totalPages equal to
\* ceil(totalItems / limit), and as items exactly the active products at the
\* positions [(page-1)*limit, page*limit) clamped to the available length; a
\* page beyond totalPages returns an empty list, not an error.
C22_PageOfActiveProducts ==
  Listed =>
    LET page == lastQuery.page
        limit == lastQuery.limit
        products == lastQuery.result.products
        info == lastQuery.result.pagination
        first == Min((page - 1) * limit, Len(ActiveIds))
        last == Min(page * limit, Len(ActiveIds))
    IN /\ info.totalItems = Len(ActiveIds)
       /\ info.totalPages * limit >= info.totalItems
       /\ info.totalPages > 0 => (info.totalPages - 1) * limit < info.totalItems
       /\ info.totalPages >= 0
       /\ Len(products) = last - first
       /\ \A i \in 1..Len(products) : products[i] = productsStorage[ActiveIds[first + i]]
       /\ page > info.totalPages => products = <<>>
       /\ info.currentPage = page /\ info.itemsPerPage = limit

\* The second page of two of a store with three active products holds the
\* third of them alone.
C22_Witness ==
  /\ Listed
  /\ Len(ActiveIds) = 3
  /\ lastQuery.limit = 2 /\ lastQuery.page = 2
  /\ lastQuery.result.pagination.totalPages = 2
  /\ lastQuery.result.products = <<productsStorage["prod_3"]>>

\* C23: every product getCatalogue returns has status active, whatever the
\* store holds; draft and archived products are never listed and are not
\* counted in totalItems.
C23_OnlyActiveListed ==
  Listed =>
    LET products == lastQuery.result.products
        hidden == {p \in DOMAIN productsStorage : productsStorage[p].status \in {"draft", "archived"}}
    IN /\ \A i \in 1..Len(products) : products[i].status = "active"
       /\ \A i \in 1..Len(products) : products[i].id \notin hidden
       /\ lastQuery.result.pagination.totalItems = Cardinality(DOMAIN productsStorage \ hidden)

\* A store with a draft, an archived and an active product was listed in
\* full, and the list holds the active one alone.
C23_Witness ==
  /\ Listed
  /\ {productsStorage[p].status : p \in DOMAIN productsStorage} = Statuses
  /\ lastQuery.page = 1 /\ lastQuery.limit = MaxLimit
  /\ Len(lastQuery.result.products) = 1
  /\ lastQuery.result.pagination.totalItems = 1

\* C24: getCatalogue on an empty store returns an empty list with
\* totalPages = 0 and totalItems = 0 and does not fail; it returns the same
\* when the store holds products of which none is active.
C24_EmptyCatalogueListed ==
  (Listed /\ \A p \in DOMAIN productsStorage : productsStorage[p].status # "active") =>
    /\ lastQuery.result.products = <<>>
    /\ lastQuery.result.pagination.totalPages = 0
    /\ lastQuery.result.pagination.totalItems = 0
    /\ lastQuery.result = getCatalogue(EmptyMap, lastQuery.page, lastQuery.limit)

\* The empty store was listed.
C24_Witness ==
  /\ Listed
  /\ DOMAIN productsStorage = {}
  /\ lastQuery.result.products = <<>>
  /\ lastQuery.result.pagination.totalPages = 0

\* A store of draft and archived products was listed.
C24_WitnessNoneActive ==
  /\ Listed
  /\ DOMAIN productsStorage = Seeded
  /\ lastQuery.result.products = <<>>
  /\ lastQuery.result.pagination.totalPages = 0

\* C25: getProductById returns the product exactly when it is stored with
\* status active, and returns the same absent value (null) for an id that is
\* not stored and for one whose product is draft or archived.
C25_AbsentUnlessActive ==
  lastQuery.op = "getProductById" =>
    LET id == lastQuery.productId
        shown == id \in DOMAIN productsStorage /\ productsStorage[id].status = "active"
    IN /\ shown => lastQuery.result = productsStorage[id] /\ lastQuery.result # <<>>
       /\ ~shown => lastQuery.result = <<>>
       /\ lastQuery.result \in {<<>>} \cup {productsStorage[p] : p \in DOMAIN productsStorage}

\* A stored product that is draft or archived was asked for, and null came
\* back.
C25_Witness ==
  /\ lastQuery.op = "getProductById"
  /\ lastQuery.productId \in DOMAIN productsStorage
  /\ productsStorage[lastQuery.productId].status \in {"draft", "archived"}
  /\ lastQuery.result = <<>>

\* C26: extractTokenFromHeader returns a token only for a header of exactly
\* two space-separated parts whose first is exactly "Bearer" and whose second
\* is the token; for every other shape (no header, another scheme or letter
\* case, one part, more than two parts, an empty token part) it returns
\* absent.
C26_TokenOnlyForBearerShape ==
  lastQuery.op = "extractTokenFromHeader" =>
    IF BearerShape(lastQuery.header)
      THEN lastQuery.result = lastQuery.header.args[1]
      ELSE lastQuery.result = Absent

\* The body is an object whose items is a non-empty array of at most 50
\* objects, each with a non-empty string productId and an integer quantity
\* in 1..1000.
WellFormedBody(body) ==
  /\ body.type = "object"
  /\ "items" \in DOMAIN body
  /\ body.items.type = "array"
  /\ Len(body.items.elems) \in 1..50
  /\ \A i \in 1..Len(body.items.elems) :
       LET item == body.items.elems[i]
       IN /\ item.type = "object"
          /\ item.productId.type = "string" /\ item.productId.value # ""
          /\ item.quantity.type = "number"
          /\ \E n \in 1..1000 : item.quantity.halves = 2 * n

\* The messages of the input-validation errors of POST /checkout.
ValidationErrors ==
  {"Request body must be an object", "Items must be an array", "Items array cannot be empty",
   "Cannot checkout more than 50 items at once", "Item must be an object",
   "Product ID must be a non-empty string", "Quantity must be a positive integer",
   "Quantity exceeds maximum allowed (1000)"}

\* C27: a checkout request body is accepted only if items is a non-empty
\* array of at most 50 entries, each with a non-empty string productId and an
\* integer quantity in 1..1000; every other body is rejected with an
\* input-validation error (400) before processCheckout runs, and all
\* inventory stays as it was.
C27_BodyValidated ==
  [][((lastQuery' # lastQuery \/ checkouts' # checkouts)
        /\ lastQuery'.op = "validateCheckoutRequest") =>
       IF WellFormedBody(lastQuery'.body)
         THEN /\ lastRequest'.handled
              /\ checkouts' = checkouts + 1
              /\ \A i \in 1..Len(lastRequest'.items) :
                   /\ lastRequest'.items[i].productId = lastQuery'.body.items.elems[i].productId.value
                   /\ 2 * lastRequest'.items[i].quantity = lastQuery'.body.items.elems[i].quantity.halves
              /\ Len(lastRequest'.items) = Len(lastQuery'.body.items.elems)
         ELSE /\ ~lastRequest'.handled
              /\ lastReply'.status = 400
              /\ lastReply'.error \in ValidationErrors
              /\ checkouts' = checkouts
              /\ UNCHANGED <<productsStorage, sold, lastCheckout>>]_vars

\* After a checkout that sold something, a body of 51 well-formed items was
\* rejected as invalid.
C27_Witness ==
  /\ lastQuery.op = "validateCheckoutRequest"
  /\ lastQuery.body = JsonBody(JsonArray([i \in 1..51 |-> OneOfProd1Json]))
  /\ lastReply.status = 400
  /\ lastReply.error = "Cannot checkout more than 50 items at once"
  /\ ~lastRequest.handled
  /\ sold["prod_1"] > 0

\* The text has the shape local@domain: one "@" with at least one character
\* on each side, and no white space.
LocalAtDomain(text) ==
  /\ Cardinality({i \in 1..Len(text) : text[i] = "@"}) = 1
  /\ text[1] # "@" /\ text[Len(text)] # "@"
  /\ \A i \in 1..Len(text) : text[i] # " "

\* The most recent login request, and whether its email was accepted.
LoginHandled == lastQuery.op = "validateLoginRequest"
Accepted == LoginHandled /\ lastQuery.result.success

\* C28: login input is accepted only for a non-empty string of local@domain
\* shape and at most 320 characters; the accepted email is normalized to
\* lower case and trimmed before it is used as the user key; normalization is
\* idempotent; and two accepted emails that differ only in letter case or
\* surrounding white space resolve to the same User record.
C28_EmailNormalized ==
  /\ [](Accepted =>
          LET raw == lastQuery.body.email
              email == lastQuery.result.data.email
          IN /\ raw.type = "string"
             /\ Len(raw.value) \in 1..320
             /\ LocalAtDomain(raw.value)
             /\ \A i \in 1..Len(email) : email[i] # "A"
             /\ email[1] # " " /\ email[Len(email)] # " "
             /\ Len(email) = Len(trim(raw.value))
             /\ \A i \in 1..Len(email) : email[i] \in {trim(raw.value)[i], "a"}
             /\ email \in DOMAIN usersStorage
             /\ validateEmail(JsonString(email)) = Valid(email))
  /\ [](LoginHandled /\ ~Accepted => lastReply.status = 400)
  /\ [][(Accepted /\ Accepted' /\ lastQuery' # lastQuery
           /\ toLowerCase(trim(lastQuery.body.email.value))
                = toLowerCase(trim(lastQuery'.body.email.value)))
          => /\ lastQuery'.result.data.email = lastQuery.result.data.email
             /\ usersStorage' = usersStorage]_vars

\* Two logins with addresses that differ in letter case alone were both
\* accepted, and one User is stored.
C28_Witness ==
  /\ Accepted
  /\ arrivals.next = 3
  /\ arrivals.messages[1] # arrivals.messages[2]
  /\ DOMAIN issued = {1, 2}
  /\ issued[1].email = issued[2].email
  /\ Cardinality(DOMAIN usersStorage) = 1

\* A step of the model is a handleLogin call.
LoginStep == issued' # issued

ReasonOfFirstUnavailable(store, items) ==
  LET failing == {i \in 1..Len(items) :
                    \/ items[i].productId \notin DOMAIN store
                    \/ store[items[i].productId].status # "active"
                    \/ store[items[i].productId].inventory < items[i].quantity}
      first == CHOOSE i \in failing : \A j \in failing : i <= j
      id == items[first].productId
  IN IF failing = {} THEN "none"
     ELSE IF id \notin DOMAIN store THEN "Product not found"
     ELSE IF store[id].status # "active" THEN "Product is not available for purchase"
     ELSE "Insufficient inventory"

\* C30: at the checkout endpoint every availability failure (product not
\* found, product not active, insufficient inventory) is reported as a client
\* error (400) carrying the specific reason, an inventory-update failure
\* after validation passed is reported as a server error (500), and no
\* failing checkout is reported as success.
C30_FailureStatus ==
  [][(CheckoutStep /\ DOMAIN productsStorage # {}) =>
       LET reason == ReasonOfFirstUnavailable(productsStorage, lastRequest'.items)
       IN /\ reason # "none" =>
               /\ lastReply'.status = 400
               /\ lastReply'.error = reason
               /\ lastCheckout'.outcome = "ItemUnavailable"
          /\ lastCheckout'.outcome = "InventoryUpdateFailed" =>
               /\ reason = "none"
               /\ lastReply'.status = 500
          /\ lastCheckout'.outcome # "success" =>
               /\ lastReply'.status \in {400, 500}
               /\ ~lastReply'.body.success
          /\ lastReply'.status = 200 <=> lastCheckout'.outcome = "success"]_vars

\* Some line of a request was available and still its inventory update
\* failed, and the reply was a server error.
C30_Witness ==
  /\ lastCheckout.outcome = "InventoryUpdateFailed"
  /\ lastReply.status = 500
  /\ lastRequest.handled
  /\ Len(lastRequest.items) = 2
  /\ \E p \in Seeded : sold[p] > 0

\* C31: no operation of the core adds or removes a product or changes a
\* product's identifier, title, status, price or variants: across logins,
\* redemptions, listings, checkouts and sweeps only the inventory of a product
\* ever changes, and only a checkout changes it.
C31_OnlyCheckoutChangesInventory ==
  [][/\ DOMAIN productsStorage' = DOMAIN productsStorage
     /\ \A p \in DOMAIN productsStorage :
          productsStorage'[p] =
            [productsStorage[p] EXCEPT !.inventory = productsStorage'[p].inventory]
     /\ productsStorage' # productsStorage => CheckoutStep]_vars

\* Checkouts have changed the stock of a product, a code was redeemed and
\* swept away, and the catalogue was listed after that.
C31_Witness ==
  /\ \E p \in DOMAIN productsStorage : productsStorage[p].inventory # seeded[p]
  /\ lastCheckout.outcome = "InventoryUpdateFailed"
  /\ \E c \in DOMAIN issued : redeemed[c] = 1 /\ c \notin DOMAIN authCodesStorage
  /\ lastQuery.op = "getCatalogue"

\* The most recent processCheckout call was traced and failed in its debit loop.
DebitFailed ==
  /\ lastQuery.op = "processCheckout"
  /\ lastCheckout.outcome = "InventoryUpdateFailed"

\* The stock of product p in store once the first n lines of items are debited.
AfterLines(store, items, n, p) == store[p].inventory - Requested(SubSeq(items, 1, n), p)

\* C32: the debit pass applies the debits one line at a time in the order of
\* the request's lines: when the debit of line k fails, exactly the lines
\* before k have been debited at that moment, and no line after k is debited
\* in that request.
C32_DebitsInOrder ==
  DebitFailed =>
    LET items == lastQuery.items
        before == lastQuery.store
        debit == lastQuery.debit
        k == lastCheckout.failedAt
    IN /\ k \in 1..Len(items)
       /\ debit.failedAt = k
       /\ debit.updates = SubSeq(items, 1, k - 1)
       /\ DOMAIN debit.store = DOMAIN before
       /\ \A p \in DOMAIN before :
            /\ debit.store[p].inventory = AfterLines(before, items, k - 1, p)
            /\ productsStorage[p].inventory >= debit.store[p].inventory
       /\ \A j \in 1..(k - 1) :
            AfterLines(before, items, j - 1, items[j].productId) >= items[j].quantity
       /\ AfterLines(before, items, k - 1, items[k].productId) < items[k].quantity

\* The debit of the second of three lines failed after the first was applied.
C32_Witness ==
  /\ DebitFailed
  /\ lastCheckout.failedAt = 2
  /\ Len(lastQuery.items) = 3
  /\ lastQuery.debit.updates # <<>>
  /\ lastQuery.items[3].productId # lastQuery.items[2].productId
  /\ lastQuery.items[3].productId \in DOMAIN lastQuery.store
  /\ lastQuery.store[lastQuery.items[3].productId].status = "active"

\* C33: a successful checkout lowers the inventory of each product by exactly
\* the sum of the quantities of the request's lines that name it, and leaves
\* every product the request does not name, every user and every
\* authorization code unchanged.
C33_SuccessDebitsExactly ==
  [][(CheckoutStep /\ lastCheckout'.outcome = "success")
       => /\ DOMAIN productsStorage' = DOMAIN productsStorage
          /\ \A p \in DOMAIN productsStorage :
               productsStorage'[p] =
                 [productsStorage[p] EXCEPT !.inventory = @ - (sold'[p] - sold[p])]
          /\ usersStorage' = usersStorage
          /\ authCodesStorage' = authCodesStorage]_vars

\* A checkout of two lines of one product has succeeded while a user is
\* stored, one code is used with its redemption suspended and another is unused.
C33_Witness ==
  /\ lastCheckout.outcome = "success"
  /\ lastCheckout.lines = 2
  /\ sold["prod_1"] = 2
  /\ productsStorage["prod_1"].inventory = seeded["prod_1"] - 2
  /\ usersStorage # EmptyMap
  /\ \E c, d \in DOMAIN authCodesStorage :
       authCodesStorage[c].used /\ inflight[c] > 0 /\ ~authCodesStorage[d].used

\* A stored code that is used or past its expiry.
Dead(c) ==
  /\ c \in DOMAIN authCodesStorage
  /\ authCodesStorage[c].used \/ authCodesStorage[c].expiresAt < now

\* C34: under the periodic sweeps of the reaper every code that becomes used
\* or passes its expiry is eventually removed from the code store, and from
\* some moment on the store holds only unused, unexpired codes.
C34_DeadCodesReaped ==
  /\ \A c \in Codes : Dead(c) ~> (c \notin DOMAIN authCodesStorage)
  /\ <>[](\A c \in Codes : ~Dead(c))

\* A sweep has removed a code that was redeemed and a code that expired unused.
C34_Witness ==
  \E c, d \in DOMAIN issued :
    /\ c \notin DOMAIN authCodesStorage /\ redeemed[c] = 1
    /\ d \notin DOMAIN authCodesStorage /\ passed[d] = 0 /\ issued[d].expiresAt < now
    /\ lastRedeem.outcome # MsgExpired

\* A code is stored with the binding of its login, unused, a Redeem of it
\* would pass the three checks, and the sweep would keep it.
Intact(c) ==
  /\ c \in DOMAIN authCodesStorage
  /\ authCodesStorage[c] = [code |-> c, email |-> issued[c].email,
                            expiresAt |-> issued[c].expiresAt, used |-> FALSE]
  /\ ExchangeOutcome(authCodesStorage, c, now) = Marked
  /\ c \notin ReapedCodes(authCodesStorage, now)

\* C35 as stated: a code that has been issued, has not been successfully
\* redeemed (no Redeem of it has returned a token or is on its way to) and is
\* not past its expiry is never removed, and a Redeem of it does not fail.
C35_UnredeemedIsIntact ==
  \A c \in DOMAIN issued :
    (redeemed[c] = 0 /\ inflight[c] = 0 /\ now <= issued[c].expiresAt) => Intact(c)

\* C35: a code that has been issued, that no Redeem has marked used and that
\* is not past its expiry (now <= expiresAt) is never removed by a sweep or by
\* a Login or a Redeem, and a Redeem of it does not fail with not-found,
\* already-used or expired; the check of Redeem and the sweep both compare
\* expiresAt < now, so at the instant now = expiresAt the code is still
\* redeemable and is not reaped.
C35_UnusedIsIntact ==
  /\ \A c \in DOMAIN issued : (passed[c] = 0 /\ now <= issued[c].expiresAt) => Intact(c)
  /\ (LastOnIssued /\ ~lastRedeem.priorPassed /\ ~lastRedeem.priorExpired)
       => lastRedeem.outcome \notin {MsgInvalid, MsgUsed, MsgExpired}

\* An unused code is stored at the very instant of its expiry, after a sweep
\* has removed a used code and other logins and Redeems were made.
C35_Witness ==
  \E c, d \in DOMAIN issued :
    /\ passed[d] = 0
    /\ now = issued[d].expiresAt
    /\ d \in DOMAIN authCodesStorage
    /\ passed[c] = 1
    /\ c \notin DOMAIN authCodesStorage
    /\ lastRedeem.outcome # "none"

\* C36: in every reachable state the inventory of each product is its seeded
\* inventory less the quantities of its lines in the checkout requests that
\* returned success: it never exceeds the seeded value, and failed requests
\* contribute nothing.
C36_InventoryIsSeededLessSold ==
  \A p \in DOMAIN productsStorage :
    productsStorage[p].inventory = seeded[p] - sold[p]

\* The products whose lines in items ask for more than store holds of them.
Overdrawn(store, items) ==
  {p \in ProductIds :
     /\ Requested(items, p) > 0
     /\ p \notin DOMAIN store \/ Requested(items, p) > store[p].inventory}

\* C37: processCheckout returns success only if, for every product, the
\* quantities of all the lines naming it add up to at most its inventory at
\* the start of the request; the pre-flight pass checks each line by itself
\* against the undebited inventory, so a request whose lines for one product
\* fit one by one but not together passes the pre-flight and is rejected in
\* the debit pass only.
C37_SuccessOnlyIfJointlyInStock ==
  lastQuery.op = "processCheckout" =>
    LET items == lastQuery.items
        before == lastQuery.store
    IN /\ lastCheckout.outcome = "success" => Overdrawn(before, items) = {}
       /\ (UnavailableLines(before, items) = {} /\ Overdrawn(before, items) # {})
            => /\ lastCheckout.outcome = "InventoryUpdateFailed"
               /\ PreFlight(before, items) = 0
               /\ lastCheckout.response = NoResponse

\* Two lines of one in-stock product, each within the stock and together
\* above it, were rejected in the debit pass.
C37_Witness ==
  /\ DebitFailed
  /\ Len(lastQuery.items) = 2
  /\ lastQuery.items[1].productId = lastQuery.items[2].productId
  /\ \A i \in 1..2 :
       lastQuery.items[i].quantity <= lastQuery.store[lastQuery.items[i].productId].inventory
  /\ Overdrawn(lastQuery.store, lastQuery.items) = {lastQuery.items[1].productId}

\* A Redeem of code c passed the checks and then failed to mint its token.
MintFailed(c) == passed[c] > inflight[c] + redeemed[c]

NotForSale(store) == {p \in DOMAIN store : store[p].status \in {"draft", "archived"}}

\* C39: no checkout request changes the inventory of a product whose status
\* is draft or archived: a request with a line naming such a product is
\* rejected in the pre-flight pass, so neither the debit step, which does not
\* look at the status, nor the rollback is applied to it.
C39_NotForSaleNeverDebited ==
  lastQuery.op = "processCheckout" =>
    LET items == lastQuery.items
        before == lastQuery.store
    IN /\ \A p \in NotForSale(before) : productsStorage[p] = before[p]
       /\ (\E i \in 1..Len(items) : items[i].productId \in NotForSale(before))
            => /\ lastCheckout.outcome = "ItemUnavailable"
               /\ \A i \in 1..Len(items) :
                    items[i].productId \in NotForSale(before) => lastCheckout.failedAt \in 1..i
               /\ lastQuery.debit.updates = <<>>
               /\ productsStorage = before
               /\ sold = [p \in Seeded |-> 0]

\* A request whose first line is of an active product in stock and whose
\* second is of an archived product in stock was rejected at the second line.
C39_Witness ==
  /\ lastQuery.op = "processCheckout"
  /\ Len(lastQuery.items) = 2
  /\ \A i \in 1..2 : lastQuery.items[i].productId \in DOMAIN lastQuery.store
  /\ lastQuery.store[lastQuery.items[1].productId].status = "active"
  /\ lastQuery.store[lastQuery.items[1].productId].inventory >= lastQuery.items[1].quantity
  /\ lastQuery.store[lastQuery.items[2].productId].status = "archived"
  /\ lastQuery.store[lastQuery.items[2].productId].inventory >= lastQuery.items[2].quantity
  /\ lastCheckout.failedAt = 2

====
